---- MODULE Spec2Model ----
(***************************************************************************)
(* Model of the Angular snippet compile function: the request handler      *)
(* compileAngular, the process-wide cache store of the cache manager and   *)
(* the cached module resolver.                                             *)
(*                                                                         *)
(* JavaScript runs every handler to its next await without interleaving,   *)
(* so one action is one run-to-await segment of a handler.  A request      *)
(* yields at "await analyzeAsync()" and at "await prettier.format()".      *)
(***************************************************************************)
EXTENDS Integers, Sequences, FiniteSets, TLC

VARIABLES
  compilationCache,            \* Map<codeHash, {compiledOutput, hasDiagnostics}> in insertion order
  compilationCacheV1,          \* the same mapping under the earlier cacheCompilation (evicts one)
  isCleaningCompilationCache,  \* the cleanup flag of cacheCompilation
  requests,                    \* every invocation of the handler, in order of arrival
  lastResponder,               \* history: the request whose response was the latest step (0: none)
  cacheCalls,                  \* history: direct cacheCompilation calls, new keys and repeated keys
  lastCall,                    \* history: the latest direct cacheCompilation call
  limit,                       \* the number of requests the run admits
  enhancedModuleCache,         \* Map<cacheKey, {resolvedFileName, isExternalLibraryImport}>
  modulePathCache,             \* Map<cacheKey, resolvedFileName>, the legacy cache
  resolvingModules,            \* Set<cacheKey>: the keys marked as being resolved
  resolverCall,                \* the module-resolver call that is running or has just returned
  preWarm,                     \* the run of preWarmModuleCache: its position and its locals
  now,                         \* Date.now(), in the unit of the model's clock
  resolvedFrom,                \* history: the containing file of the call that stored each key
  fileContentCache,            \* Map<fileName, content>
  disk,                        \* the files on disk and their content
  hostRead,                    \* history: the latest host.readFile call and what it did
  lastResolved,                \* history: the descriptor the latest real resolution stored
  pipeline,                    \* the inline-cache handler: its store and its requests in flight
  timed                        \* one invocation's startTime, timings and compilationTime

fileVars == <<fileContentCache, disk, hostRead>>

vars == <<compilationCache, compilationCacheV1, isCleaningCompilationCache, requests, lastResponder,
          cacheCalls, lastCall, limit, enhancedModuleCache, modulePathCache,
          resolvingModules, resolverCall, preWarm, now, fileVars, pipeline, timed,
          resolvedFrom, lastResolved>>

storeVars == <<compilationCache, compilationCacheV1, isCleaningCompilationCache>>
requestVars == <<requests, lastResponder, limit>>
moduleVars == <<enhancedModuleCache, modulePathCache, resolvingModules,
                resolverCall, preWarm, now, fileVars, pipeline, timed, resolvedFrom, lastResolved>>

(***************************************************************************)
(* Bounds of the model.                                                    *)
(***************************************************************************)
MaxRequests == 2
\* cacheCompilation alone: distinct keys beyond MAX_CACHE_SIZE, and calls with a
\* key inserted before
MaxOverflow == 105
MaxRepeats == 2
\* requests served after the load of the handler module
MaxLoadRequests == 1
\* module resolution: specifiers in one batch
MaxBatch == 3
\* the time-to-live variant: the steps of the clock
MaxTicks == 3
\* the inline-cache handler: requests in flight together, and distinct keys
\* beyond MAX_CACHE_SIZE
MaxInFlight == 2
MaxPipelineOverflow == 3

(***************************************************************************)
(* Program constants.                                                      *)
(***************************************************************************)
MAX_CACHE_SIZE == 1000

(***************************************************************************)
(* Source texts.  A text is a sequence of characters; "a" stands for code  *)
(* the compiler accepts, "x" for a token that draws an analysis            *)
(* diagnostic, "e" for a token that draws an emission diagnostic.          *)
(***************************************************************************)
Whitespace == {" ", "\n"}

Texts ==
  { <<"a">>, <<"a", "\n">>, <<"x">>, <<"\n", "x">>, <<"e">>, <<" ">> }

\* req.body: { code } may be missing, and may be the empty string
Bodies ==
  { [has |-> TRUE, code |-> t] : t \in Texts \cup {<<>>} }
    \cup { [has |-> FALSE, code |-> <<>>] }

Methods == {"POST", "OPTIONS", "GET"}

\* String.prototype.trim: drops leading and trailing whitespace
RECURSIVE TrimStart(_)
TrimStart(s) ==
  IF s = <<>> THEN <<>>
  ELSE IF Head(s) \in Whitespace THEN TrimStart(Tail(s)) ELSE s

RECURSIVE TrimEnd(_)
TrimEnd(s) ==
  IF s = <<>> THEN <<>>
  ELSE IF s[Len(s)] \in Whitespace THEN TrimEnd(SubSeq(s, 1, Len(s) - 1)) ELSE s

Trim(s) == TrimEnd(TrimStart(s))

\* the digest: an injective numbering of character sequences (no collisions)
CharCode(c) ==
  CASE c = "a" -> 1 [] c = "x" -> 2 [] c = "e" -> 3 [] c = " " -> 4 [] c = "\n" -> 5
    [] OTHER -> 6

RECURSIVE Md5(_)
Md5(s) ==
  IF s = <<>> THEN 1 ELSE Md5(SubSeq(s, 1, Len(s) - 1)) * 7 + CharCode(s[Len(s)])

\* codeHash = md5(inputCode.trim())
CodeHashBlind(inputCode) == Md5(inputCode)
CodeHash(inputCode) == Md5(Trim(inputCode))

(***************************************************************************)
(* Cache store: the compilation-result mapping.  A JavaScript Map keeps    *)
(* its keys in the order of their first insertion; set() on a present key  *)
(* replaces the value in place.                                            *)
(***************************************************************************)
CacheKeys(cache) == { cache[i].key : i \in 1..Len(cache) }

CacheIndex(cache, codeHash) ==
  IF codeHash \in CacheKeys(cache)
    THEN CHOOSE i \in 1..Len(cache) : cache[i].key = codeHash
    ELSE 0

EntryWithoutFlag(codeHash, result) ==
  [key |-> codeHash, compiledOutput |-> result.compiledOutput,
   hasDiagnostics |-> FALSE]
Entry(codeHash, result) ==
  [key |-> codeHash, compiledOutput |-> result.compiledOutput,
   hasDiagnostics |-> result.hasDiagnostics]

\* compilationCache.set(codeHash, result)
MapSet(cache, codeHash, result) ==
  IF codeHash \in CacheKeys(cache)
    THEN [cache EXCEPT ![CacheIndex(cache, codeHash)] = Entry(codeHash, result)]
    ELSE Append(cache, Entry(codeHash, result))

\* getCachedCompilation: the stored entry, or undefined
HasCachedCompilation(cache, codeHash) == codeHash \in CacheKeys(cache)
GetCachedCompilation(cache, codeHash) == cache[CacheIndex(cache, codeHash)]

\* Math.floor(MAX_CACHE_SIZE * 0.1)
EntriesToRemove == MAX_CACHE_SIZE \div 10

\* the cleanup loop: delete the keys the iterator yields first, up to n of them
RECURSIVE RemoveOldest(_, _)
RemoveOldest(cache, n) ==
  IF n = 0 \/ cache = <<>> THEN cache ELSE RemoveOldest(Tail(cache), n - 1)

\* cacheCompilation(codeHash, result); the flag is reset in the finally block,
\* so the call leaves it as it found it
CacheCompilationNoCleanup(cache, cleaning, codeHash, result) ==
  MapSet(cache, codeHash, result)
CacheCompilationEvictOne(cache, cleaning, codeHash, result) ==
  MapSet(IF Len(cache) >= MAX_CACHE_SIZE /\ ~cleaning
           THEN RemoveOldest(cache, 1) ELSE cache, codeHash, result)
CacheCompilation(cache, cleaning, codeHash, result) ==
  MapSet(IF Len(cache) >= MAX_CACHE_SIZE /\ ~cleaning
           THEN RemoveOldest(cache, EntriesToRemove) ELSE cache, codeHash, result)

\* isCleaningCompilationCache when cacheCompilation returns: set before the
\* cleanup, reset in its finally block
CleaningFlagLeftSet(cache, cleaning) ==
  cleaning \/ Len(cache) >= MAX_CACHE_SIZE
CleaningFlagAfter(cache, cleaning) ==
  IF Len(cache) >= MAX_CACHE_SIZE /\ ~cleaning THEN FALSE ELSE cleaning

\* the earlier cacheCompilation: at capacity, delete the first key, then insert
CacheCompilationV1(cache, codeHash, result) ==
  MapSet(IF Len(cache) >= MAX_CACHE_SIZE THEN RemoveOldest(cache, 1) ELSE cache,
         codeHash, result)

(***************************************************************************)
(* The compiler and the pretty-printer, as the handler uses them.          *)
(***************************************************************************)
\* 0-based line and character of position i (getLineAndCharacterOfPosition)
LineOf(text, i) == Cardinality({ j \in 1..(i - 1) : text[j] = "\n" })
LineStart(text, i) ==
  LET nl == { j \in 1..(i - 1) : text[j] = "\n" }
  IN  IF nl = {} THEN 0 ELSE CHOOSE j \in nl : \A k \in nl : k <= j
CharacterOf(text, i) == i - 1 - LineStart(text, i)

RECURSIVE DiagnosticsFor(_, _, _, _)
DiagnosticsFor(text, token, code, i) ==
  IF i > Len(text) THEN <<>>
  ELSE (IF text[i] = token
          THEN << [line |-> LineOf(text, i), character |-> CharacterOf(text, i),
                   code |-> code] >>
          ELSE <<>>) \o DiagnosticsFor(text, token, code, i + 1)

\* syntactic, semantic, options, structural and template diagnostics of the program
AllDiagnostics(inputCode) == DiagnosticsFor(inputCode, "x", 2339, 1)
\* the diagnostics ngProgram.emit() returns
EmitDiagnostics(inputCode) == DiagnosticsFor(inputCode, "e", 5055, 1)

\* `${file}(${line + 1},${character + 1}): ${category} TS${code}: ${message}`
FormatDiagnosticZeroBased(d) ==
  "/main.ts(" \o ToString(d.line) \o "," \o ToString(d.character)
    \o "): Error TS" \o ToString(d.code)
FormatDiagnostic(d) ==
  "/main.ts(" \o ToString(d.line + 1) \o "," \o ToString(d.character + 1)
    \o "): Error TS" \o ToString(d.code)

\* diagnostics.map(format).join('\n'): one line per diagnostic
DiagnosticText(ds) == [k \in 1..Len(ds) |-> FormatDiagnostic(ds[k])]

\* what emit() hands to host.writeFile: the code tokens, each class followed by
\* its dev-mode metadata block
RECURSIVE EmittedCode(_)
EmittedCode(text) ==
  IF text = <<>> THEN <<>>
  ELSE (IF Head(text) \in Whitespace THEN <<>> ELSE <<Head(text), "ngDevMode">>)
         \o EmittedCode(Tail(text))

RECURSIVE RemoveNgDevModeBlocks(_)
RemoveNgDevModeBlocks(code) ==
  IF code = <<>> THEN <<>>
  ELSE (IF Head(code) = "ngDevMode" THEN <<>> ELSE <<Head(code)>>)
         \o RemoveNgDevModeBlocks(Tail(code))

\* prettier.format(code, options): endOfLine 'lf'
PrettierFormat(code) == code \o <<"\n">>

(***************************************************************************)
(* Module resolution.  A path is the sequence of its segments.  The        *)
(* resolver is synchronous: a call runs from its first line to its return  *)
(* with no other handler code in between, so at most one call is running.  *)
(***************************************************************************)
Modules == {"rxjs", "zone.js"}

\* the compiler resolves the imports of the virtual file, <cwd>/main.ts
ContainingFiles == { <<"srv", "main.ts">> }

Segments(path) == { path[k] : k \in 1..Len(path) }

\* containing files of each kind createCacheKey tells apart: '/main.ts', files
\* of the project, files under node_modules
BucketFiles ==
  { <<"main.ts">>, <<"srv", "main.ts">>, <<"srv", "app", "a.ts">>,
    <<"srv", "node_modules", "rxjs", "index.d.ts">>,
    <<"srv", "node_modules", "zone.js", "index.d.ts">> }

\* fileType of createCacheKey
Bucket(containingFile) ==
  IF containingFile = <<"main.ts">> THEN "main"
  ELSE IF "node_modules" \in Segments(containingFile) THEN "npm" ELSE "local"

\* createCacheKey: `${moduleName}#${fileType}`
CreateCacheKeyByDepth(moduleName, containingFile) ==
  moduleName \o "#" \o ToString(Len(containingFile))
CreateCacheKey(moduleName, containingFile) ==
  moduleName \o "#" \o
    (IF containingFile = <<"main.ts">> THEN "main"
     ELSE IF "node_modules" \in Segments(containingFile) THEN "npm" ELSE "local")

\* the specifiers preWarmModuleCache resolves, in its order, and the containing
\* file it resolves them against, '/main.ts'
COMMON_ANGULAR_MODULES ==
  <<"@angular/core", "typescript", "@angular/common", "@angular/platform-browser",
    "rxjs">>

PreWarmFile == <<"main.ts">>

CacheKeyDomain ==
  { CreateCacheKey(m, f) : m \in Modules, f \in ContainingFiles \cup BucketFiles }
    \cup { CreateCacheKey(COMMON_ANGULAR_MODULES[k], PreWarmFile)
           : k \in 1..Len(COMMON_ANGULAR_MODULES) }

\* ts.ResolvedModule | undefined; isExternalLibraryImport may be left undefined
Unresolved ==
  [resolved |-> FALSE, resolvedFileName |-> <<>>, isExternalLibraryImport |-> "undefined"]

ResolvedModule(resolvedFileName, isExternalLibraryImport) ==
  [resolved |-> TRUE, resolvedFileName |-> resolvedFileName,
   isExternalLibraryImport |-> isExternalLibraryImport]

NoModule ==
  [present |-> FALSE, resolvedFileName |-> <<>>, isExternalLibraryImport |-> FALSE,
   timestamp |-> 0]

\* the enhanced entry cacheResolvedModule writes: isExternalLibraryImport ?? true
EnhancedEntryDropped(resolvedModule) == NoModule
EnhancedEntry(resolvedModule) ==
  [present |-> TRUE, resolvedFileName |-> resolvedModule.resolvedFileName,
   isExternalLibraryImport |-> resolvedModule.isExternalLibraryImport # "false",
   timestamp |-> now]

\* the descriptor the resolver builds from an enhanced entry
FromEnhanced(entry) ==
  ResolvedModule(entry.resolvedFileName,
                 IF entry.isExternalLibraryImport THEN "true" ELSE "false")

\* migrateLegacyToEnhanced
MigratedEntry(legacyPath) ==
  [present |-> TRUE, resolvedFileName |-> legacyPath, isExternalLibraryImport |-> TRUE,
   timestamp |-> now]

\* markModuleAsResolving: false when the key is marked already
CanMark(resolving, cacheKey) == cacheKey \notin resolving
MarkModuleAsResolving(resolving, cacheKey) == resolving \cup {cacheKey}

\* resolvingModules.delete(cacheKey): the finally block of cacheResolvedModule and
\* the else branch after a failed resolution
KeepResolvingMark(resolving, cacheKey) == resolving
ClearAfterFailure(resolving, cacheKey) == resolving \ {cacheKey}
ClearAfterCachingSkipped(resolving, cacheKey) == resolving
ClearAfterCaching(resolving, cacheKey) == resolving \ {cacheKey}

(***************************************************************************)
(* fallbackResolveModule, over the state of node_modules/<moduleName> on   *)
(* disk: whether the directory exists, its package.json (absent, not       *)
(* parseable, or parsed with its types, typings and main fields, "" when   *)
(* not declared) and the files that exist in it.                           *)
(***************************************************************************)
PackageStates ==
  { [dir |-> FALSE, pkgJson |-> "absent", types |-> "", typings |-> "", main |-> "",
     files |-> {}],
    [dir |-> TRUE, pkgJson |-> "invalid", types |-> "", typings |-> "", main |-> "",
     files |-> {"index.d.ts"}],
    [dir |-> TRUE, pkgJson |-> "valid", types |-> "types.d.ts", typings |-> "",
     main |-> "main.js", files |-> {"main.js", "types.d.ts"}] }

ModulePath(moduleName) == <<"srv", "node_modules", moduleName>>

RECURSIVE FirstExisting(_, _)
FirstExisting(candidates, files) ==
  IF candidates = <<>> THEN ""
  ELSE IF Head(candidates) \in files THEN Head(candidates)
  ELSE FirstExisting(Tail(candidates), files)

\* [...].filter(Boolean)
Declared(candidates) == SelectSeq(candidates, LAMBDA c : c # "")

FallbackResolveModuleMainFirst(moduleName, pkg) ==
  IF ~pkg.dir THEN Unresolved
  ELSE IF pkg.pkgJson = "invalid" THEN Unresolved
  ELSE
    LET declared ==
          IF pkg.pkgJson = "valid"
            THEN FirstExisting(
                   Declared(<<pkg.main, pkg.types, pkg.typings, "index.d.ts",
                              "lib/index.d.ts", "dist/index.d.ts">>), pkg.files)
            ELSE ""
        conventional ==
          FirstExisting(<<"index.d.ts", "index.ts", "lib/index.d.ts", "dist/index.d.ts">>,
                        pkg.files)
        found == IF declared # "" THEN declared ELSE conventional
    IN  IF found = "" THEN Unresolved
        ELSE ResolvedModule(Append(ModulePath(moduleName), found), "true")
FallbackResolveModule(moduleName, pkg) ==
  IF ~pkg.dir THEN Unresolved
  ELSE IF pkg.pkgJson = "invalid" THEN Unresolved    \* JSON.parse throws: caught
  ELSE
    LET declared ==
          IF pkg.pkgJson = "valid"
            THEN FirstExisting(
                   Declared(<<pkg.types, pkg.typings, pkg.main, "index.d.ts",
                              "lib/index.d.ts", "dist/index.d.ts">>), pkg.files)
            ELSE ""
        conventional ==
          FirstExisting(<<"index.d.ts", "index.ts", "lib/index.d.ts", "dist/index.d.ts">>,
                        pkg.files)
        found == IF declared # "" THEN declared ELSE conventional
    IN  IF found = "" THEN Unresolved
        ELSE ResolvedModule(Append(ModulePath(moduleName), found), "true")

\* the try/catch around the whole body of fallbackResolveModule: no error of the
\* file system or of JSON.parse leaves the function
FallbackEscapesUnparseable(moduleName, pkg) == pkg.dir /\ pkg.pkgJson = "invalid"
FallbackEscapes(moduleName, pkg) == FALSE

\* what ts.resolveModuleName does for one specifier: it throws, finds nothing, or
\* returns a resolved module whose isExternalLibraryImport may be left undefined
PrimaryOutcomes(moduleName) ==
  { [threw |-> TRUE, module |-> Unresolved], [threw |-> FALSE, module |-> Unresolved] }
    \cup { [threw |-> FALSE,
            module |-> ResolvedModule(Append(ModulePath(moduleName), "index.d.ts"), x)]
           : x \in {"false", "undefined"} }

\* the try/catch around ts.resolveModuleName, then the fallback for no result
ResolveMiss(moduleName, primary, pkg) ==
  LET first == IF primary.threw THEN FallbackResolveModule(moduleName, pkg)
               ELSE primary.module
  IN  IF first.resolved THEN first ELSE FallbackResolveModule(moduleName, pkg)

HowResolved(primary, result) ==
  IF ~primary.threw /\ primary.module.resolved THEN "primary"
  ELSE IF result.resolved
         THEN (IF primary.threw THEN "fallbackAfterThrow" ELSE "fallback")
         ELSE (IF primary.threw THEN "unresolvedAfterThrow" ELSE "unresolved")

\* the ways one cache miss can end, over what the primary resolver does and what
\* is on disk
MissOutcomes(moduleName) ==
  { [how    |-> HowResolved(primary, ResolveMiss(moduleName, primary, pkg)),
     result |-> ResolveMiss(moduleName, primary, pkg),
     raised |-> /\ primary.threw \/ ~primary.module.resolved
                /\ FallbackEscapes(moduleName, pkg)]
    : primary \in PrimaryOutcomes(moduleName), pkg \in PackageStates }

\* node_modules/<moduleName> on disk in more detail: up to MaxPackageFiles of
\* the files the fallback looks for, and the entry points a package.json declares
MaxPackageFiles == 2

PackageFiles ==
  {"types.d.ts", "typings.d.ts", "main.js", "index.d.ts", "index.ts",
   "lib/index.d.ts", "dist/index.d.ts"}

FilesOnDisk == { f \in SUBSET PackageFiles : Cardinality(f) <= MaxPackageFiles }

PackagesOnDisk ==
  { [dir |-> FALSE, pkgJson |-> "absent", types |-> "", typings |-> "", main |-> "",
     files |-> {}] }
    \cup { [dir |-> TRUE, pkgJson |-> j, types |-> "", typings |-> "", main |-> "",
            files |-> f] : j \in {"absent", "invalid", "valid"}, f \in FilesOnDisk }
    \cup { [dir |-> TRUE, pkgJson |-> "valid", types |-> d[1], typings |-> d[2],
            main |-> d[3], files |-> f]
           : d \in { <<"types.d.ts", "typings.d.ts", "main.js">>,
                     <<"", "typings.d.ts", "main.js">>,
                     <<"", "", "main.js">> },
             f \in FilesOnDisk }

\* the ways one cache miss can end over those packages, with what the primary
\* resolver did and what was on disk
DiskOutcomes(moduleName) ==
  { [how     |-> HowResolved(primary, ResolveMiss(moduleName, primary, pkg)),
     result  |-> ResolveMiss(moduleName, primary, pkg),
     raised  |-> /\ primary.threw \/ ~primary.module.resolved
                 /\ FallbackEscapes(moduleName, pkg),
     primary |-> primary,
     pkg     |-> pkg]
    : primary \in PrimaryOutcomes(moduleName), pkg \in PackagesOnDisk }

\* resolvedModules[index] = resolvedModule
PutAtWorkListPosition(resolvedModules, item, position, resolvedModule) ==
  [resolvedModules EXCEPT ![position] = resolvedModule]
PutResolved(resolvedModules, item, position, resolvedModule) ==
  [resolvedModules EXCEPT ![item.index] = resolvedModule]

\* phase 1: the batch cache lookup, specifier i onwards
LookupBatchAllMiss(moduleNames, containingFile, i, acc) ==
  [acc EXCEPT !.toResolve =
     [k \in 1..Len(moduleNames) |->
        [index |-> k, moduleName |-> moduleNames[k],
         cacheKey |-> CreateCacheKey(moduleNames[k], containingFile)]]]
RECURSIVE LookupBatch(_, _, _, _)
LookupBatch(moduleNames, containingFile, i, acc) ==
  IF i > Len(moduleNames) THEN acc
  ELSE
    LET moduleName == moduleNames[i]
        cacheKey   == CreateCacheKey(moduleName, containingFile)
        cached     == acc.enhanced[cacheKey]
        legacyPath == modulePathCache[cacheKey]
    IN  LookupBatch(moduleNames, containingFile, i + 1,
          IF cached.present
            THEN [acc EXCEPT
                    !.resolvedModules[i] = FromEnhanced(cached),
                    !.log = Append(@, [moduleName |-> moduleName, how |-> "enhanced",
                                       result |-> FromEnhanced(cached)])]
          ELSE IF legacyPath # <<>>
            THEN [acc EXCEPT
                    !.enhanced[cacheKey] = MigratedEntry(legacyPath),
                    !.resolvedModules[i] = ResolvedModule(legacyPath, "true"),
                    !.log = Append(@, [moduleName |-> moduleName, how |-> "legacy",
                                       result |-> ResolvedModule(legacyPath, "true")])]
          ELSE [acc EXCEPT
                  !.toResolve = Append(@, [index |-> i, moduleName |-> moduleName,
                                           cacheKey |-> cacheKey])])

Batches == UNION { [1..n -> Modules] : n \in 0..MaxBatch }

(***************************************************************************)
(* The file-content cache and the readFile of the optimized host.  A path  *)
(* is the sequence of its segments; a first segment "." makes it relative  *)
(* to the working directory.                                               *)
(***************************************************************************)
\* path.resolve(process.cwd(), 'main.ts')
VIRTUAL_FILE == <<"srv", "main.ts">>

WorkingDirectory == <<"srv">>

\* path.resolve(fileName)
PathResolve(fileName) ==
  IF fileName # <<>> /\ fileName[1] = "." THEN WorkingDirectory \o Tail(fileName)
  ELSE fileName

NpmFile == <<"srv", "node_modules", "rxjs", "index.d.ts">>
LocalFile == <<"srv", "app", "a.ts">>
LibFileName == <<".", "lib.es5.d.ts">>

\* the names readFile is asked for
FileNames == {VIRTUAL_FILE, <<".", "main.ts">>, NpmFile, LocalFile, LibFileName}

\* fileName.startsWith('lib.') && fileName.endsWith('.d.ts')
MatchesTypeScriptLibFilePattern(fileName) == fileName = LibFileName

\* path.join(__dirname, '..', 'node_modules', 'typescript', 'lib', fileName)
BuildTypeScriptLibFilePath(fileName) ==
  <<"srv", "node_modules", "typescript", "lib">> \o Tail(fileName)

MatchesVirtualFileNameOrPath(fileName, virtualFile, virtualAbsPath) ==
  fileName = virtualFile \/ PathResolve(fileName) = virtualAbsPath

\* what a file on disk holds: <<>> when there is no such file, <<content>> otherwise
Contents == {"", "v1", "v2"}
DiskPaths == {NpmFile, LocalFile, BuildTypeScriptLibFilePath(LibFileName)}
InitialDisk == [p \in DiskPaths |-> <<"v1">>]

\* ts.sys.readFile / fs.readFileSync: undefined when the file is not there
BaseReadFile(fileName) ==
  IF PathResolve(fileName) \in DOMAIN disk THEN disk[PathResolve(fileName)] ELSE <<>>

\* a string that is neither undefined nor empty
Truthy(content) == content # <<>> /\ content[1] # ""

\* getCachedFileContent
GetCachedFileContent(cache, fileName) ==
  IF fileName \in DOMAIN cache THEN <<cache[fileName]>> ELSE <<>>

\* cacheFileContent
CacheFileContentAnyPath(cache, fileName, content) ==
  IF content # ""
    THEN [f \in DOMAIN cache \cup {fileName} |->
            IF f = fileName THEN content ELSE cache[f]]
    ELSE cache
CacheFileContent(cache, fileName, content) ==
  IF "node_modules" \in Segments(fileName) /\ content # ""
    THEN [f \in DOMAIN cache \cup {fileName} |->
            IF f = fileName THEN content ELSE cache[f]]
    ELSE cache

\* what one readFile did: the content it returned, the files it read on disk,
\* whether it asked the cache, and the cache it left
ReadOutcome(content, diskReads, cacheAsked, cache) ==
  [content |-> content, diskReads |-> diskReads, cacheAsked |-> cacheAsked,
   cache |-> cache]

\* tryReadFileFromCacheOrDisk
TryReadFileFromDiskFirst(fileName) ==
  LET content == BaseReadFile(fileName)
  IN  ReadOutcome(content, {PathResolve(fileName)}, TRUE,
        IF Truthy(content) THEN CacheFileContent(fileContentCache, fileName, content[1])
        ELSE fileContentCache)
TryReadFileFromCacheOrDisk(fileName) ==
  LET cachedContent == GetCachedFileContent(fileContentCache, fileName)
      content       == BaseReadFile(fileName)
  IN  IF Truthy(cachedContent)
        THEN ReadOutcome(cachedContent, {}, TRUE, fileContentCache)
        ELSE ReadOutcome(content, {PathResolve(fileName)}, TRUE,
               IF Truthy(content)
                 THEN CacheFileContent(fileContentCache, fileName, content[1])
                 ELSE fileContentCache)

\* the readFile buildOptimizedFileContentReader returns
BuildOptimizedFileContentReader(inputCode, virtualFile, virtualAbsPath, fileName) ==
  LET libPath == BuildTypeScriptLibFilePath(fileName)
  IN  IF MatchesVirtualFileNameOrPath(fileName, virtualFile, virtualAbsPath)
        THEN ReadOutcome(<<inputCode>>, {}, FALSE, fileContentCache)
      ELSE IF MatchesTypeScriptLibFilePattern(fileName) /\ disk[libPath] # <<>>
        THEN ReadOutcome(disk[libPath], {libPath}, FALSE, fileContentCache)
      ELSE TryReadFileFromCacheOrDisk(fileName)

NoRead ==
  [fileName |-> <<>>, inputCode |-> <<>>, content |-> <<>>, diskReads |-> {},
   cacheAsked |-> FALSE, cachedBefore |-> <<>>]

InitFiles ==
  /\ pipeline = [cache |-> <<>>, waiting |-> <<>>, issued |-> 0]
  /\ timed = [pc |-> "idle", startTime |-> 0, timings |-> <<>>, marks |-> <<>>,
              compilationTime |-> -1, status |-> 0]
  /\ fileContentCache = <<>>
  /\ disk = InitialDisk
  /\ hostRead = NoRead

\* host.readFile(fileName) of the host createOptimizedHost made for a request
\* with text inputCode
HostReadFile ==
  /\ resolverCall.pc # "resolving"
  /\ \E inputCode \in Texts, fileName \in FileNames :
       LET outcome == BuildOptimizedFileContentReader(inputCode, VIRTUAL_FILE,
                        PathResolve(VIRTUAL_FILE), fileName)
       IN  /\ fileContentCache' = outcome.cache
           /\ hostRead' = [fileName |-> fileName, inputCode |-> inputCode,
                           content |-> outcome.content,
                           diskReads |-> outcome.diskReads,
                           cacheAsked |-> outcome.cacheAsked,
                           cachedBefore |-> GetCachedFileContent(fileContentCache,
                                                                 fileName)]
  /\ UNCHANGED <<disk, pipeline, timed, storeVars, requestVars, cacheCalls, lastCall,
                 enhancedModuleCache, modulePathCache, resolvingModules, resolverCall,
                 preWarm, now, resolvedFrom, lastResolved>>

\* a file on disk is written, created or removed by something else
DiskChanges ==
  /\ \E p \in DiskPaths, content \in {<<>>} \cup { <<c>> : c \in Contents } :
       /\ disk[p] # content
       /\ disk' = [disk EXCEPT ![p] = content]
  /\ UNCHANGED <<fileContentCache, hostRead, pipeline, timed, storeVars, requestVars, cacheCalls,
                 lastCall, enhancedModuleCache, modulePathCache, resolvingModules,
                 resolverCall, preWarm, now, resolvedFrom, lastResolved>>

\* if (resolvedModule): the resolution found the module
ResolvedOrNot(resolvedModule) == TRUE
Resolved(resolvedModule) == resolvedModule.resolved

NoResolverCall ==
  [pc |-> "idle", moduleNames |-> <<>>, containingFile |-> <<>>,
   resolvedModules |-> <<>>, toResolve |-> <<>>, next |-> 1, marked |-> {},
   log |-> <<>>]

InitModules ==
  /\ enhancedModuleCache = [k \in CacheKeyDomain |-> NoModule]
  /\ modulePathCache = [k \in CacheKeyDomain |-> <<>>]
  /\ resolvingModules = {}
  /\ resolverCall = NoResolverCall
  /\ now = 0
  /\ resolvedFrom = [k \in CacheKeyDomain |-> <<>>]
  /\ lastResolved = [k \in CacheKeyDomain |-> NoModule]
  /\ InitFiles

\* the resolver is called with a batch: phase 1 runs
ResolverBeginWith(containingFile, moduleNames) ==
  /\ resolverCall.pc # "resolving"
  /\ preWarm.pc # "running"
  /\ LET p == LookupBatch(moduleNames, containingFile, 1,
                [resolvedModules |-> [i \in 1..Len(moduleNames) |-> Unresolved],
                 toResolve |-> <<>>, enhanced |-> enhancedModuleCache, log |-> <<>>])
     IN  /\ resolverCall' =
              [pc |-> "resolving", moduleNames |-> moduleNames,
               containingFile |-> containingFile,
               resolvedModules |-> p.resolvedModules, toResolve |-> p.toResolve,
               next |-> 1, marked |-> {}, log |-> p.log]
         /\ enhancedModuleCache' = p.enhanced
  /\ UNCHANGED <<modulePathCache, resolvingModules, preWarm, now, fileVars, pipeline, timed,
                 resolvedFrom, lastResolved,
                 storeVars, requestVars, cacheCalls, lastCall>>

ResolverBegin ==
  \E containingFile \in ContainingFiles, moduleNames \in Batches :
    ResolverBeginWith(containingFile, moduleNames)

\* what the log keeps of one resolved miss
LogEntry(item, outcome) ==
  [moduleName |-> item.moduleName, how |-> outcome.how, result |-> outcome.result]

\* over the detailed packages the log also keeps what the primary resolver did
\* and what was on disk
LogEntryOnDisk(item, outcome) ==
  [moduleName |-> item.moduleName, how |-> outcome.how, result |-> outcome.result,
   primary |-> outcome.primary, pkg |-> outcome.pkg]

\* phase 2, one cache miss of the work list; detailed selects the packages the
\* miss is resolved over
ResolveNextFrom(detailed) ==
  /\ resolverCall.pc = "resolving"
  /\ resolverCall.next <= Len(resolverCall.toResolve)
  /\ LET item    == resolverCall.toResolve[resolverCall.next]
         free    == CanMark(resolvingModules, item.cacheKey)
         marking == IF free THEN MarkModuleAsResolving(resolvingModules, item.cacheKey)
                    ELSE resolvingModules
         recheck == enhancedModuleCache[item.cacheKey]
         advance == [resolverCall EXCEPT
                       !.next = @ + 1,
                       !.marked = IF free THEN @ \cup {item.cacheKey} ELSE @]
     IN  IF ~free /\ recheck.present
           THEN \* another resolution of the key has finished: use its entry
                /\ resolverCall' =
                     [advance EXCEPT
                        !.resolvedModules =
                           PutResolved(@, item, resolverCall.next, FromEnhanced(recheck)),
                        !.log = Append(@, [moduleName |-> item.moduleName,
                                           how |-> "recheck",
                                           result |-> FromEnhanced(recheck)])]
                /\ UNCHANGED <<enhancedModuleCache, modulePathCache, resolvingModules,
                               resolvedFrom, lastResolved>>
           ELSE \E outcome \in (IF detailed THEN DiskOutcomes(item.moduleName)
                                 ELSE MissOutcomes(item.moduleName)) :
                  LET resolvedModule == outcome.result
                  IN  IF outcome.raised
                      THEN \* an error leaves the loop and the resolver
                           /\ resolverCall' = [advance EXCEPT !.pc = "raised"]
                           /\ resolvingModules' = marking
                           /\ UNCHANGED <<enhancedModuleCache, modulePathCache,
                                          resolvedFrom, lastResolved>>
                      ELSE
                      /\ IF Resolved(resolvedModule)
                           THEN /\ enhancedModuleCache' =
                                     [enhancedModuleCache EXCEPT
                                        ![item.cacheKey] = EnhancedEntry(resolvedModule)]
                                /\ modulePathCache' =
                                     [modulePathCache EXCEPT
                                        ![item.cacheKey] = resolvedModule.resolvedFileName]
                                /\ resolvingModules' =
                                     ClearAfterCaching(marking, item.cacheKey)
                                /\ resolvedFrom' =
                                     [resolvedFrom EXCEPT
                                        ![item.cacheKey] = resolverCall.containingFile]
                                /\ lastResolved' =
                                     [lastResolved EXCEPT
                                        ![item.cacheKey] = EnhancedEntry(resolvedModule)]
                           ELSE /\ resolvingModules' =
                                     ClearAfterFailure(marking, item.cacheKey)
                                /\ UNCHANGED <<enhancedModuleCache, modulePathCache,
                                               resolvedFrom, lastResolved>>
                      /\ resolverCall' =
                           [advance EXCEPT
                              !.resolvedModules =
                                 PutResolved(@, item, resolverCall.next, resolvedModule),
                              !.log = Append(@, IF detailed
                                                  THEN LogEntryOnDisk(item, outcome)
                                                  ELSE LogEntry(item, outcome))]
  /\ UNCHANGED <<preWarm, now, fileVars, pipeline, timed, storeVars, requestVars,
                 cacheCalls, lastCall>>

ResolverResolveNext == ResolveNextFrom(FALSE)

\* the same iteration over the detailed packages
ResolverResolveNextOnDisk == ResolveNextFrom(TRUE)

\* the compiler asks for one import of the virtual file
ResolverBeginOne ==
  \E containingFile \in ContainingFiles, m \in Modules :
    ResolverBeginWith(containingFile, <<m>>)

\* return resolvedModules
ResolverReturn ==
  /\ resolverCall.pc = "resolving"
  /\ resolverCall.next > Len(resolverCall.toResolve)
  /\ resolverCall' = [resolverCall EXCEPT !.pc = "returned"]
  /\ UNCHANGED <<enhancedModuleCache, modulePathCache, resolvingModules, preWarm,
                 now, fileVars, pipeline, timed, resolvedFrom, lastResolved, storeVars, requestVars,
                 cacheCalls, lastCall>>

(***************************************************************************)
(* The time-to-live variant of the module cache: the resolveModuleNames of *)
(* the earlier handler, over the cache manager that has isCacheValid.  It  *)
(* has no in-flight markers.  The clock moves in steps of half the         *)
(* time-to-live.                                                           *)
(***************************************************************************)
MODULE_RESOLUTION_TTL == 24 * 60 * 60 * 1000

ClockStep == MODULE_RESOLUTION_TTL \div 2

\* '/main.ts', the virtual file of the earlier handler
VIRTUAL_FILE_V1 == <<"main.ts">>

\* isCacheValid: Date.now() - cachedModule.timestamp < MODULE_RESOLUTION_TTL
IsCacheValid(cachedModule) == now - cachedModule.timestamp < MODULE_RESOLUTION_TTL

\* phase 1 of the earlier resolveModuleNames, specifier i onwards
RECURSIVE LookupBatchV1(_, _, _, _)
LookupBatchV1(moduleNames, containingFile, i, acc) ==
  IF i > Len(moduleNames) THEN acc
  ELSE
    LET moduleName == moduleNames[i]
        cacheKey   == CreateCacheKey(moduleName, containingFile)
        cached     == acc.enhanced[cacheKey]
        legacyPath == modulePathCache[cacheKey]
    IN  LookupBatchV1(moduleNames, containingFile, i + 1,
          IF cached.present /\ IsCacheValid(cached)
            THEN [acc EXCEPT
                    !.resolvedModules[i] = FromEnhanced(cached),
                    !.log = Append(@, [moduleName |-> moduleName, how |-> "enhanced",
                                       result |-> FromEnhanced(cached)])]
          ELSE IF legacyPath # <<>>
            THEN [acc EXCEPT
                    !.enhanced[cacheKey] = MigratedEntry(legacyPath),
                    !.resolvedModules[i] = ResolvedModule(legacyPath, "true"),
                    !.log = Append(@, [moduleName |-> moduleName, how |-> "legacy",
                                       result |-> ResolvedModule(legacyPath, "true")])]
          ELSE [acc EXCEPT
                  !.toResolve = Append(@, [index |-> i, moduleName |-> moduleName,
                                           cacheKey |-> cacheKey])])

\* Date.now() moves on between two calls
Tick ==
  /\ resolverCall.pc # "resolving"
  /\ now < MaxTicks * ClockStep
  /\ now' = now + ClockStep
  /\ UNCHANGED <<enhancedModuleCache, modulePathCache, resolvingModules, resolverCall,
                 preWarm, fileVars, pipeline, timed, resolvedFrom, lastResolved, storeVars,
                 requestVars, cacheCalls, lastCall>>

\* the compiler calls resolveModuleNames for an import of the virtual file
ResolverBeginV1 ==
  /\ resolverCall.pc # "resolving"
  /\ \E moduleNames \in { b \in Batches : Len(b) = 1 } :
       LET p == LookupBatchV1(moduleNames, VIRTUAL_FILE_V1, 1,
                  [resolvedModules |-> [i \in 1..Len(moduleNames) |-> Unresolved],
                   toResolve |-> <<>>, enhanced |-> enhancedModuleCache, log |-> <<>>])
       IN  /\ resolverCall' =
                [pc |-> "resolving", moduleNames |-> moduleNames,
                 containingFile |-> VIRTUAL_FILE_V1,
                 resolvedModules |-> p.resolvedModules, toResolve |-> p.toResolve,
                 next |-> 1, marked |-> {}, log |-> p.log]
           /\ enhancedModuleCache' = p.enhanced
  /\ UNCHANGED <<modulePathCache, resolvingModules, preWarm, now, fileVars, pipeline, timed,
                 resolvedFrom,
                 lastResolved, storeVars, requestVars, cacheCalls, lastCall>>

\* phase 2 of the earlier resolveModuleNames, one cache miss of the work list
ResolverResolveNextV1 ==
  /\ resolverCall.pc = "resolving"
  /\ resolverCall.next <= Len(resolverCall.toResolve)
  /\ LET item == resolverCall.toResolve[resolverCall.next]
     IN  \E outcome \in MissOutcomes(item.moduleName) :
           LET resolvedModule == outcome.result
           IN  /\ IF Resolved(resolvedModule)
                    THEN /\ enhancedModuleCache' =
                              [enhancedModuleCache EXCEPT
                                 ![item.cacheKey] = EnhancedEntry(resolvedModule)]
                         /\ modulePathCache' =
                              [modulePathCache EXCEPT
                                 ![item.cacheKey] = resolvedModule.resolvedFileName]
                         /\ resolvedFrom' =
                              [resolvedFrom EXCEPT
                                 ![item.cacheKey] = resolverCall.containingFile]
                         /\ lastResolved' =
                              [lastResolved EXCEPT
                                 ![item.cacheKey] = EnhancedEntry(resolvedModule)]
                    ELSE UNCHANGED <<enhancedModuleCache, modulePathCache, resolvedFrom,
                                     lastResolved>>
               /\ resolverCall' =
                    [resolverCall EXCEPT
                       !.next = @ + 1,
                       !.resolvedModules =
                          PutResolved(@, item, resolverCall.next, resolvedModule),
                       !.log = Append(@, [moduleName |-> item.moduleName,
                                          how |-> outcome.how,
                                          result |-> resolvedModule])]
  /\ UNCHANGED <<resolvingModules, preWarm, now, fileVars, pipeline, timed, storeVars, requestVars,
                 cacheCalls, lastCall>>

(***************************************************************************)
(* preWarmModuleCache.  The function is async but awaits nothing: a call   *)
(* runs its loop to the end before anything else runs.  Its locals are     *)
(* gone when it returns.                                                   *)
(***************************************************************************)
NotWarmed == [pc |-> "notStarted", next |-> 1, log |-> <<>>]

\* the run is over
Warmed == [pc |-> "finished", next |-> 1, log |-> <<>>]

\* the try/catch inside the loop: an error of one specifier stays in its iteration
PreWarmEscapesOnThrow(outcome) == outcome.threw
PreWarmEscapes(outcome) == FALSE

Visited(run, moduleName, how, wasCached) ==
  [run EXCEPT !.next = @ + 1,
              !.log = Append(@, [moduleName |-> moduleName, how |-> how,
                                 wasCached |-> wasCached])]

\* preWarmModuleCache is called
PreWarmBegin ==
  /\ preWarm.pc \in {"notStarted", "finished"}
  /\ resolverCall.pc # "resolving"
  /\ preWarm' = [pc |-> "running", next |-> 1, log |-> <<>>]
  /\ UNCHANGED <<enhancedModuleCache, modulePathCache, resolvingModules, resolverCall,
                 now, fileVars, pipeline, timed, resolvedFrom, lastResolved, storeVars, requestVars,
                 cacheCalls, lastCall>>

\* one iteration of the loop over COMMON_ANGULAR_MODULES
PreWarmNext ==
  /\ preWarm.pc = "running"
  /\ preWarm.next <= Len(COMMON_ANGULAR_MODULES)
  /\ LET moduleName == COMMON_ANGULAR_MODULES[preWarm.next]
         cacheKey   == CreateCacheKey(moduleName, PreWarmFile)
     IN  IF enhancedModuleCache[cacheKey].present
           THEN \* skip if already cached
                /\ preWarm' = Visited(preWarm, moduleName, "skipped", TRUE)
                /\ UNCHANGED <<enhancedModuleCache, modulePathCache, resolvingModules,
                               resolvedFrom, lastResolved>>
           ELSE \E outcome \in PrimaryOutcomes(moduleName) :
                  IF outcome.threw /\ PreWarmEscapes(outcome)
                    THEN /\ preWarm' = [preWarm EXCEPT !.pc = "raised"]
                         /\ UNCHANGED <<enhancedModuleCache, modulePathCache,
                                        resolvingModules, resolvedFrom, lastResolved>>
                  ELSE IF ~outcome.threw /\ outcome.module.resolved
                    THEN /\ enhancedModuleCache' =
                              [enhancedModuleCache EXCEPT
                                 ![cacheKey] = EnhancedEntry(outcome.module)]
                         /\ modulePathCache' =
                              [modulePathCache EXCEPT
                                 ![cacheKey] = outcome.module.resolvedFileName]
                         /\ resolvingModules' =
                              ClearAfterCaching(resolvingModules, cacheKey)
                         /\ resolvedFrom' = [resolvedFrom EXCEPT ![cacheKey] = PreWarmFile]
                         /\ lastResolved' =
                              [lastResolved EXCEPT
                                 ![cacheKey] = EnhancedEntry(outcome.module)]
                         /\ preWarm' = Visited(preWarm, moduleName, "resolved", FALSE)
                  ELSE /\ preWarm' =
                            Visited(preWarm, moduleName,
                                    IF outcome.threw THEN "threw" ELSE "unresolved", FALSE)
                       /\ UNCHANGED <<enhancedModuleCache, modulePathCache,
                                      resolvingModules, resolvedFrom, lastResolved>>
  /\ UNCHANGED <<resolverCall, now, fileVars, pipeline, timed, storeVars, requestVars,
                 cacheCalls, lastCall>>

\* the loop is over: the count is logged and the function returns
PreWarmEnd ==
  /\ preWarm.pc = "running"
  /\ preWarm.next > Len(COMMON_ANGULAR_MODULES)
  /\ preWarm' = Warmed
  /\ UNCHANGED <<enhancedModuleCache, modulePathCache, resolvingModules, resolverCall,
                 now, fileVars, pipeline, timed, resolvedFrom, lastResolved, storeVars, requestVars,
                 cacheCalls, lastCall>>

(***************************************************************************)
(* The request handler compileAngular.                                     *)
(***************************************************************************)
NoResponse ==
  [compiledOutput |-> <<>>, hasDiagnostics |-> FALSE, fromCache |-> FALSE,
   error |-> "", message |-> "",
   compilationTime |-> FALSE, timings |-> {}]

\* the state of one invocation at its arrival, CORS headers set
NewRequestCorsForPostOnly(method, body) ==
  [method |-> method, body |-> body, pc |-> "arrived", status |-> 0,
   cors |-> method = "POST", codeHash |-> 0, hit |-> FALSE, trace |-> <<>>,
   diagnostics |-> <<>>, compiledCode |-> <<>>, response |-> NoResponse,
   threw |-> FALSE, after |-> lastResponder,
   doneAtArrival |-> { k \in 1..Len(requests) : requests[k].pc = "done" }]
NewRequest(method, body) ==
  [method |-> method, body |-> body, pc |-> "arrived", status |-> 0,
   cors |-> TRUE, codeHash |-> 0, hit |-> FALSE, trace |-> <<>>,
   diagnostics |-> <<>>, compiledCode |-> <<>>, response |-> NoResponse,
   threw |-> FALSE, after |-> lastResponder,
   doneAtArrival |-> { k \in 1..Len(requests) : requests[k].pc = "done" }]

\* res.status(s).json(body) / send(body): the one response of the invocation
Respond(r, status, response) ==
  [r EXCEPT !.pc = "done", !.status = status, !.response = response]

Ran(r, phases) == [r EXCEPT !.trace = r.trace \o phases]

ErrorResponse(message) == [NoResponse EXCEPT !.error = message]

\* the catch block: 500 with { error, message }
CaughtWithoutResponse(r) == [r EXCEPT !.threw = TRUE, !.pc = "failed"]
Caught(r) ==
  Respond([r EXCEPT !.threw = TRUE], 500,
          [ErrorResponse("Internal server error") EXCEPT !.message = "err.message"])

\* { ...cachedResult, compilationTime, fromCache: true, timings }
CachedResponseNotFlagged(entry) ==
  [compiledOutput |-> entry.compiledOutput,
   hasDiagnostics |-> entry.hasDiagnostics, fromCache |-> FALSE, error |-> "", message |-> "",
   compilationTime |-> FALSE, timings |-> {}]
CachedResponse(entry) ==
  [compiledOutput |-> entry.compiledOutput,
   hasDiagnostics |-> entry.hasDiagnostics, fromCache |-> TRUE, error |-> "", message |-> "",
   compilationTime |-> FALSE, timings |-> {}]

FreshResponseNeverFlagged(output, hasDiagnostics) ==
  [compiledOutput |-> output, hasDiagnostics |-> FALSE,
   fromCache |-> FALSE, error |-> "", message |-> "",
   compilationTime |-> FALSE, timings |-> {}]
FreshResponse(output, hasDiagnostics) ==
  [compiledOutput |-> output, hasDiagnostics |-> hasDiagnostics,
   fromCache |-> FALSE, error |-> "", message |-> "",
   compilationTime |-> FALSE, timings |-> {}]

\* the keys of the timings record, each set when its phase is over
TimingKeys == {"setup", "hashing", "cacheCheck", "hostCreation", "programCreation",
               "analysis", "emission", "formatting"}

\* a 200 body: compilationTime and the timings gathered so far are added
WithoutTimings(r, response) == [response EXCEPT !.compilationTime = TRUE]
WithTimings(r, response) ==
  [response EXCEPT !.compilationTime = TRUE,
                   !.timings = { r.trace[k] : k \in 1..Len(r.trace) } \cap TimingKeys]

CompilePhases == {"hostCreation", "programCreation", "analysis", "diagnostics",
                  "emission", "postProcessing", "formatting"}

PhasesOf(r) == { r.trace[k] : k \in 1..Len(r.trace) }

\* the store after compilationCache.get(codeHash): a Map keeps its insertion
\* order, a lookup does not touch it
CacheAfterGetMostRecent(cache, codeHash) ==
  IF CacheIndex(cache, codeHash) = 0 THEN cache
  ELSE LET i == CacheIndex(cache, codeHash)
       IN  SubSeq(cache, 1, i - 1) \o SubSeq(cache, i + 1, Len(cache)) \o <<cache[i]>>
CacheAfterGet(cache, codeHash) == cache

ArriveWith(r, cache) ==
  /\ Len(requests) < limit
  /\ requests' = Append(requests, r)
  /\ lastResponder' = IF r.pc = "done" THEN Len(requests) + 1 ELSE 0
  /\ compilationCache' = cache
  /\ UNCHANGED <<compilationCacheV1, isCleaningCompilationCache,
                 cacheCalls, lastCall, limit, moduleVars>>

Arrive(r) == ArriveWith(r, compilationCache)

\* req.method === 'OPTIONS': 204, empty body
Preflight ==
  /\ "OPTIONS" \in Methods
  /\ Arrive(Respond(NewRequest("OPTIONS", [has |-> FALSE, code |-> <<>>]),
                 204, NoResponse))

\* req.method !== 'POST': 405
MethodNotAllowed ==
  \E m \in Methods \ {"POST", "OPTIONS"} :
    /\ m # "POST"
    /\ Arrive(Respond(NewRequest(m, [has |-> FALSE, code |-> <<>>]),
                   405, ErrorResponse("Method not allowed")))

\* !inputCode: the code field is absent or the empty string
CodeFieldAbsent(b) == ~b.has
CodeMissing(b) == ~b.has \/ b.code = <<>>

\* !inputCode: 400
CodeRequired ==
  \E b \in Bodies :
    /\ CodeMissing(b)
    /\ Arrive(Respond(Ran(NewRequest("POST", b), <<"setup">>),
                      400, ErrorResponse("Code is required")))

\* validation passed: the key is computed, then the store is looked up
HashedAfterLookup(b) ==
  [Ran(NewRequest("POST", b), <<"setup", "cacheCheck", "hashing">>)
     EXCEPT !.codeHash = CodeHash(b.code)]
Hashed(b) ==
  [Ran(NewRequest("POST", b), <<"setup", "hashing", "cacheCheck">>)
     EXCEPT !.codeHash = CodeHash(b.code)]

\* getCachedCompilation(codeHash) returned an entry: answer from the cache
CacheHit ==
  \E b \in Bodies :
    /\ ~CodeMissing(b)
    /\ HasCachedCompilation(compilationCache, CodeHash(b.code))
    /\ ArriveWith(Respond([Hashed(b) EXCEPT !.hit = TRUE], 200,
                          WithTimings(Hashed(b),
                                      CachedResponse(GetCachedCompilation(compilationCache,
                                                                          CodeHash(b.code))))),
                  CacheAfterGet(compilationCache, CodeHash(b.code)))

\* cache miss: host and program are created and analyzeAsync() is awaited
CacheMiss ==
  \E b \in Bodies :
    /\ ~CodeMissing(b)
    /\ ~HasCachedCompilation(compilationCache, CodeHash(b.code))
    /\ Arrive([Ran(Hashed(b), <<"hostCreation", "programCreation", "analysis">>)
                 EXCEPT !.pc = "analysis"])

\* cache miss, and creating the host or the program throws: the catch block
CreationThrows ==
  \E b \in Bodies :
    /\ ~CodeMissing(b)
    /\ ~HasCachedCompilation(compilationCache, CodeHash(b.code))
    /\ Arrive(Caught(Ran(Hashed(b), <<"hostCreation", "programCreation">>)))

Step(i, r, cache) ==
  /\ requests' = [requests EXCEPT ![i] = r]
  /\ compilationCache' = cache
  /\ lastResponder' = IF r.pc = "done" THEN i ELSE 0
  /\ UNCHANGED <<compilationCacheV1, isCleaningCompilationCache, cacheCalls, lastCall,
                 limit, moduleVars>>

Store(r, output, hasDiagnostics) ==
  CacheCompilation(compilationCache, isCleaningCompilationCache, r.codeHash,
                   [compiledOutput |-> output, hasDiagnostics |-> hasDiagnostics])

\* the catch block answers and leaves the store as it is
CacheFailure(r) == Store(r, <<>>, TRUE)
CacheAfterCatch(r) == compilationCache

\* analyzeAsync() rejects: the catch block
AnalysisRejectedAt(i) ==
  /\ requests[i].pc = "analysis"
  /\ Step(i, Caught(requests[i]), CacheAfterCatch(requests[i]))

\* allDiagnostics.length > 0: cache the diagnostic text and answer with it
AnalysisDiagnosedSharedHostAt(i) ==
  LET r  == requests[i]
      ds == AllDiagnostics(requests[Len(requests)].body.code)
  IN  /\ r.pc = "analysis"
      /\ Len(ds) > 0
      /\ Step(i, Respond([Ran(r, <<"diagnostics", "cacheResult">>)
                            EXCEPT !.diagnostics = ds],
                         200, WithTimings(Ran(r, <<"diagnostics">>),
                                          FreshResponse(DiagnosticText(ds), TRUE))),
              Store(r, DiagnosticText(ds), TRUE))
AnalysisDiagnosedAt(i) ==
  LET r  == requests[i]
      ds == AllDiagnostics(r.body.code)
  IN  /\ r.pc = "analysis"
      /\ Len(ds) > 0
      /\ Step(i, Respond([Ran(r, <<"diagnostics", "cacheResult">>)
                            EXCEPT !.diagnostics = ds],
                         200, WithTimings(Ran(r, <<"diagnostics">>),
                                          FreshResponse(DiagnosticText(ds), TRUE))),
              Store(r, DiagnosticText(ds), TRUE))

\* no diagnostics, and ngProgram.emit() throws: the catch block
EmitThrowsAt(i) ==
  LET r == requests[i]
  IN  /\ r.pc = "analysis"
      /\ Len(AllDiagnostics(r.body.code)) = 0
      /\ Step(i, Caught(Ran(r, <<"diagnostics", "emission">>)), CacheAfterCatch(r))

\* emitDiagnostics.length > 0: cache the diagnostic text and answer with it
EmitDiagnosedAt(i) ==
  LET r  == requests[i]
      ds == EmitDiagnostics(r.body.code)
  IN  /\ r.pc = "analysis"
      /\ Len(AllDiagnostics(r.body.code)) = 0
      /\ Len(ds) > 0
      /\ Step(i, Respond([Ran(r, <<"diagnostics", "emission", "cacheResult">>)
                            EXCEPT !.diagnostics = ds],
                         200, WithTimings(Ran(r, <<"diagnostics", "emission">>),
                                          FreshResponse(DiagnosticText(ds), TRUE))),
              Store(r, DiagnosticText(ds), TRUE))

\* clean emission: strip the dev-mode blocks and await prettier.format()
EmitCleanAt(i) ==
  LET r == requests[i]
  IN  /\ r.pc = "analysis"
      /\ Len(AllDiagnostics(r.body.code)) = 0
      /\ Len(EmitDiagnostics(r.body.code)) = 0
      /\ Step(i, [Ran(r, <<"diagnostics", "emission", "postProcessing", "formatting">>)
                    EXCEPT !.pc = "formatting",
                           !.compiledCode = EmittedCode(r.body.code)],
              compilationCache)

\* prettier.format() rejects: the catch block
FormatRejectedAt(i) ==
  /\ requests[i].pc = "formatting"
  /\ Step(i, Caught(requests[i]), CacheAfterCatch(requests[i]))

\* the formatted code is cached and returned
FormatDoneAt(i) ==
  LET r   == requests[i]
      out == PrettierFormat(RemoveNgDevModeBlocks(r.compiledCode))
  IN  /\ r.pc = "formatting"
      /\ Step(i, Respond(Ran(r, <<"cacheResult">>), 200,
                         WithTimings(r, FreshResponse(out, FALSE))),
              Store(r, out, FALSE))

\* each segment of a handler runs for any request that waits for it
AnalysisRejected == \E i \in 1..Len(requests) : AnalysisRejectedAt(i)
AnalysisDiagnosed == \E i \in 1..Len(requests) : AnalysisDiagnosedAt(i)
EmitThrows == \E i \in 1..Len(requests) : EmitThrowsAt(i)
EmitDiagnosed == \E i \in 1..Len(requests) : EmitDiagnosedAt(i)
EmitClean == \E i \in 1..Len(requests) : EmitCleanAt(i)
FormatRejected == \E i \in 1..Len(requests) : FormatRejectedAt(i)
FormatDone == \E i \in 1..Len(requests) : FormatDoneAt(i)

InitStore ==
  /\ compilationCache = <<>>
  /\ compilationCacheV1 = <<>>
  /\ isCleaningCompilationCache = FALSE
  /\ requests = <<>>
  /\ lastResponder = 0
  /\ cacheCalls = [fresh |-> 0, repeats |-> 0]
  /\ lastCall = [sizeBefore |-> 0, key |-> 0, hasDiagnostics |-> FALSE]
  /\ InitModules

Init == InitStore /\ limit = MaxRequests /\ preWarm = Warmed

\* one more request than Init admits
InitWide == InitStore /\ limit = MaxRequests + 1 /\ preWarm = Warmed

Next ==
  \/ Preflight
  \/ MethodNotAllowed
  \/ CodeRequired
  \/ CacheHit
  \/ CacheMiss
  \/ CreationThrows
  \/ AnalysisRejected
  \/ AnalysisDiagnosed
  \/ EmitThrows
  \/ EmitDiagnosed
  \/ EmitClean
  \/ FormatRejected
  \/ FormatDone

Spec == Init /\ [][Next]_vars

SpecWide == InitWide /\ [][Next]_vars

\* analyzeAsync() and prettier.format() settle, and the event loop then runs
\* the rest of the handler that awaits them
AnalysisSettlesAt(i) ==
  /\ i <= Len(requests)
  /\ \/ AnalysisRejectedAt(i)
     \/ AnalysisDiagnosedAt(i)
     \/ EmitThrowsAt(i)
     \/ EmitDiagnosedAt(i)
     \/ EmitCleanAt(i)

FormatSettlesAt(i) ==
  /\ i <= Len(requests)
  /\ (FormatRejectedAt(i) \/ FormatDoneAt(i))

SpecRuns ==
  /\ Init
  /\ [][Next]_vars
  /\ \A i \in 1..MaxRequests : WF_vars(AnalysisSettlesAt(i)) /\ WF_vars(FormatSettlesAt(i))

\* the requests that reach the result store: a text arrives, misses or hits,
\* and a miss goes on to one of the paths that end in cacheCompilation
NextStored ==
  \/ CacheHit
  \/ CacheMiss
  \/ AnalysisDiagnosed
  \/ EmitDiagnosed
  \/ EmitClean
  \/ FormatDone

SpecStored == InitWide /\ [][NextStored]_vars

(***************************************************************************)
(* The cache store on its own: any sequence of cacheCompilation calls.     *)
(* Keys are numbered in the order of their first insertion.  A call with a *)
(* key inserted before takes one at either end of the store or at either   *)
(* side of the eviction boundary.                                          *)
(***************************************************************************)
ResultFor(key, hasDiagnostics) ==
  [compiledOutput |-> <<"out">>, hasDiagnostics |-> hasDiagnostics]

CacheCall(key, hasDiagnostics) ==
  /\ compilationCache' =
       CacheCompilation(compilationCache, isCleaningCompilationCache, key,
                        ResultFor(key, hasDiagnostics))
  /\ compilationCacheV1' =
       CacheCompilationV1(compilationCacheV1, key, ResultFor(key, hasDiagnostics))
  /\ lastCall' = [sizeBefore |-> Len(compilationCache), key |-> key,
                  hasDiagnostics |-> hasDiagnostics]
  /\ isCleaningCompilationCache' =
       CleaningFlagAfter(compilationCache, isCleaningCompilationCache)
  /\ UNCHANGED <<requestVars, moduleVars>>

CacheNewKey ==
  /\ cacheCalls.fresh < MAX_CACHE_SIZE + MaxOverflow
  /\ cacheCalls' = [cacheCalls EXCEPT !.fresh = @ + 1]
  /\ CacheCall(cacheCalls.fresh + 1, FALSE)

RepeatPositions ==
  {1, EntriesToRemove, EntriesToRemove + 1, Len(compilationCache)}
    \cap (1..Len(compilationCache))

CacheRepeatedKey ==
  /\ cacheCalls.repeats < MaxRepeats
  /\ Len(compilationCache) >= MAX_CACHE_SIZE - 1
  /\ cacheCalls' = [cacheCalls EXCEPT !.repeats = @ + 1]
  /\ \E p \in RepeatPositions : CacheCall(compilationCache[p].key, TRUE)

InitCache == InitStore /\ limit = 0 /\ preWarm = Warmed

NextCache == CacheNewKey \/ CacheRepeatedKey

SpecCache == InitCache /\ [][NextCache]_vars

(***************************************************************************)
(* The module resolver on its own: any sequence of resolver calls.         *)
(***************************************************************************)
NextResolver == ResolverBegin \/ ResolverResolveNext \/ ResolverReturn

SpecResolver == InitCache /\ [][NextResolver]_vars

NextFallback == ResolverBeginOne \/ ResolverResolveNextOnDisk \/ ResolverReturn

SpecFallback == InitCache /\ [][NextFallback]_vars

\* the resolver is synchronous code: a call that has begun runs on
SpecResolverRuns ==
  /\ InitCache
  /\ [][NextResolver]_vars
  /\ WF_vars(ResolverResolveNext)
  /\ WF_vars(ResolverReturn)

(***************************************************************************)
(* The resolver called for one specifier at a time from the containing     *)
(* files that share their kind with another file ('/main.ts' is alone in   *)
(* its kind).                                                              *)
(***************************************************************************)
ResolverBeginInBucket ==
  /\ resolverCall.pc # "resolving"
  /\ \E containingFile \in BucketFiles \ {<<"main.ts">>}, moduleName \in Modules :
       ResolverBeginWith(containingFile, <<moduleName>>)

NextBuckets == ResolverBeginInBucket \/ ResolverResolveNext \/ ResolverReturn

SpecBuckets == InitCache /\ [][NextBuckets]_vars

(***************************************************************************)
(* The handler with the inline result cache: it looks its key up, deletes  *)
(* the oldest key when the store is at capacity, awaits the analysis and,  *)
(* on the clean path, the pretty-printer, and sets its entry at the end.   *)
(* The store is the sequence of its keys in insertion order.  The requests *)
(* have distinct keys that are not in the store; a key is numbered when it *)
(* is inserted.                                                            *)
(***************************************************************************)
\* compilationCache.set(codeHash, ...) for a key that is not in the store
PipelineSet(p) ==
  [p EXCEPT !.cache = Append(@, p.issued + 1), !.issued = @ + 1]

\* if (compilationCache.size >= MAX_CACHE_SIZE) delete the first key
PipelineClean(cache) ==
  IF Len(cache) >= MAX_CACHE_SIZE /\ cache # <<>> THEN Tail(cache) ELSE cache

PipelineDrop(waiting, k) ==
  SubSeq(waiting, 1, k - 1) \o SubSeq(waiting, k + 1, Len(waiting))

PipelineUnchanged ==
  UNCHANGED <<storeVars, requestVars, cacheCalls, lastCall, enhancedModuleCache,
              modulePathCache, resolvingModules, resolverCall, preWarm, now, fileVars,
              timed, resolvedFrom, lastResolved>>

\* a request arrives with a key that is not in the store: the cache check, the
\* cleanup, host and program, up to await analyzeAsync()
PipelineMiss ==
  /\ Len(pipeline.waiting) < MaxInFlight
  /\ pipeline.issued + Len(pipeline.waiting) < MAX_CACHE_SIZE + MaxPipelineOverflow
  /\ pipeline' = [pipeline EXCEPT !.cache = PipelineClean(@),
                                  !.waiting = Append(@, "analysis")]
  /\ PipelineUnchanged

\* diagnostics after the analysis or after the emission: the entry is set
PipelineDiagnosed ==
  /\ \E k \in 1..Len(pipeline.waiting) :
       /\ pipeline.waiting[k] = "analysis"
       /\ pipeline' = PipelineSet([pipeline EXCEPT !.waiting = PipelineDrop(@, k)])
  /\ PipelineUnchanged

\* clean emission: await prettier.format()
PipelineEmitted ==
  /\ \E k \in 1..Len(pipeline.waiting) :
       /\ pipeline.waiting[k] = "analysis"
       /\ pipeline' = [pipeline EXCEPT !.waiting[k] = "formatting"]
  /\ PipelineUnchanged

\* the formatted code is set and returned
PipelineFormatted ==
  /\ \E k \in 1..Len(pipeline.waiting) :
       /\ pipeline.waiting[k] = "formatting"
       /\ pipeline' = PipelineSet([pipeline EXCEPT !.waiting = PipelineDrop(@, k)])
  /\ PipelineUnchanged

\* the analysis, the emission or the pretty-printer throws: the catch block
PipelineThrows ==
  /\ \E k \in 1..Len(pipeline.waiting) :
       pipeline' = [pipeline EXCEPT !.waiting = PipelineDrop(@, k)]
  /\ PipelineUnchanged

NextPipeline ==
  \/ PipelineMiss
  \/ PipelineDiagnosed
  \/ PipelineEmitted
  \/ PipelineFormatted
  \/ PipelineThrows

SpecPipeline == InitCache /\ [][NextPipeline]_vars

(***************************************************************************)
(* The timings of one invocation.  Every timings.<key> line reads the      *)
(* clock and subtracts startTime and the timings recorded before it; the   *)
(* clock may advance by up to MaxElapsed between two readings.             *)
(***************************************************************************)
MaxElapsed == 1

\* the timings.<key> assignments in the order the handler reaches them
TimedPhases == <<"setup", "hashing", "cacheCheck", "hostCreation", "programCreation",
                 "analysis", "emission", "formatting">>

\* the timings each assignment subtracts, as written on its line
Subtracted ==
  [setup           |-> {},
   hashing         |-> {"setup"},
   cacheCheck      |-> {"setup", "hashing"},
   hostCreation    |-> {"setup", "hashing", "cacheCheck"},
   programCreation |-> {"hostCreation", "cacheCheck", "hashing", "setup"},
   analysis        |-> {"programCreation", "hostCreation", "cacheCheck", "hashing", "setup"},
   emission        |-> {"analysis", "programCreation", "hostCreation", "cacheCheck",
                        "hashing", "setup"},
   formatting      |-> {"emission", "analysis", "programCreation", "hostCreation",
                        "cacheCheck", "hashing", "setup"}]

RECURSIVE SumOver(_, _)
SumOver(timings, keys) ==
  IF keys = {} THEN 0
  ELSE LET k == CHOOSE x \in keys : TRUE
       IN  timings[k] + SumOver(timings, keys \ {k})

\* timings.<key> = Date.now() - startTime - timings.<earlier> - ...
TimingSinceStart(key, dateNow, startTime, timings) == dateNow - startTime
Timing(key, dateNow, startTime, timings) ==
  dateNow - startTime - SumOver(timings, Subtracted[key])

\* the timings after which the handler may answer 200: the cache hit, the
\* two diagnostics answers and the final answer
AnswersAfter == {"cacheCheck", "analysis", "emission", "formatting"}

TimingUnchanged ==
  UNCHANGED <<storeVars, requestVars, cacheCalls, lastCall, enhancedModuleCache,
              modulePathCache, resolvingModules, resolverCall, preWarm, fileVars,
              pipeline, resolvedFrom, lastResolved>>

\* const startTime = Date.now()
TimedStart ==
  \E elapsed \in 0..MaxElapsed :
    /\ timed.pc = "idle"
    /\ now' = now + elapsed
    /\ timed' = [timed EXCEPT !.pc = "running", !.startTime = now']
    /\ TimingUnchanged

\* the next timings.<key> assignment
TimedRecord ==
  \E elapsed \in 0..MaxElapsed :
    /\ timed.pc = "running"
    /\ Len(timed.marks) < Len(TimedPhases)
    /\ LET key == TimedPhases[Len(timed.marks) + 1]
       IN  /\ now' = now + elapsed
           /\ timed' =
                [timed EXCEPT
                   !.timings = @ @@ (key :> Timing(key, now', timed.startTime, @)),
                   !.marks = Append(@, now')]
    /\ TimingUnchanged

\* compilationTime = Date.now() - startTime, in a 200 body with the timings
TimedRespond ==
  \E elapsed \in 0..MaxElapsed :
    /\ timed.pc = "running"
    /\ timed.marks # <<>>
    /\ TimedPhases[Len(timed.marks)] \in AnswersAfter
    /\ now' = now + elapsed
    /\ timed' = [timed EXCEPT !.pc = "done", !.status = 200,
                              !.compilationTime = now' - timed.startTime]
    /\ TimingUnchanged

\* the 400 before the first timing, and the catch block: no timings are sent
TimedFails ==
  /\ timed.pc = "running"
  /\ timed' = [timed EXCEPT !.pc = "done",
                            !.status = IF timed.marks = <<>> THEN 400 ELSE 500]
  /\ UNCHANGED now
  /\ TimingUnchanged

NextTimings == TimedStart \/ TimedRecord \/ TimedRespond \/ TimedFails

SpecTimings == InitCache /\ [][NextTimings]_vars

(***************************************************************************)
(* The time-to-live variant on its own: calls of the earlier               *)
(* resolveModuleNames while time passes.                                   *)
(***************************************************************************)
NextTtl == Tick \/ ResolverBeginV1 \/ ResolverResolveNextV1 \/ ResolverReturn

SpecTtl == InitCache /\ [][NextTtl]_vars

(***************************************************************************)
(* The hosts' readFile on its own: reads by any request, of any file, while *)
(* the disk changes underneath.                                            *)
(***************************************************************************)
NextFiles == HostReadFile \/ DiskChanges

SpecFiles == InitCache /\ [][NextFiles]_vars

(***************************************************************************)
(* preWarmModuleCache on its own: the function is exported, any number of  *)
(* calls one after the other.                                              *)
(***************************************************************************)
InitPreWarm == InitStore /\ limit = 0 /\ preWarm = NotWarmed

NextPreWarm == PreWarmBegin \/ PreWarmNext \/ PreWarmEnd

SpecPreWarm == InitPreWarm /\ [][NextPreWarm]_vars

(***************************************************************************)
(* The load of the handler module.  Its top level calls the pre-warm       *)
(* routine inside an async function; the routine awaits nothing, so its    *)
(* loop runs to the end inside that call, and only then does the top level *)
(* go on to export compileAngular.  Requests are dispatched to an          *)
(* exported handler.                                                       *)
(***************************************************************************)
HandlerExported == preWarm.pc = "finished"

\* the IIFE of the module's top level calls preWarmModuleCache
LoadBegins == preWarm.pc = "notStarted" /\ PreWarmBegin

\* a request is accepted and the handler runs for it
Serve == HandlerExported /\ Next

InitLoad == InitStore /\ limit = MaxLoadRequests /\ preWarm = NotWarmed

NextLoad == LoadBegins \/ PreWarmNext \/ PreWarmEnd \/ Serve

SpecLoad == InitLoad /\ [][NextLoad]_vars

(***************************************************************************)
(* The first module lookups after the load: the compiler, creating the     *)
(* program of a request, asks for an import of the virtual file.           *)
(***************************************************************************)
ImportLookup ==
  /\ HandlerExported
  /\ \E moduleName \in Modules : ResolverBeginWith(VIRTUAL_FILE, <<moduleName>>)

NextWarmLookup ==
  \/ LoadBegins
  \/ PreWarmNext
  \/ PreWarmEnd
  \/ ImportLookup
  \/ ResolverResolveNext
  \/ ResolverReturn

SpecWarmLookup == InitLoad /\ [][NextWarmLookup]_vars

(***************************************************************************)
(* The compiler host.  The compiler resolves the imports of a file through *)
(* host.resolveModuleNames when the host has one, and by its own module    *)
(* resolution when it has none.  There are two versions of                 *)
(* createOptimizedHost: the earlier builds the host from scratch, the      *)
(* later starts from ts.createCompilerHost and overrides four methods.     *)
(***************************************************************************)
\* the host methods that createOptimizedHost sets itself
CreateOptimizedHostV2 ==
  {"getDefaultLibFileName", "getCurrentDirectory", "getDirectories", "directoryExists",
   "fileExists", "readFile", "getCanonicalFileName", "useCaseSensitiveFileNames",
   "getNewLine", "writeFile", "getSourceFile", "resolveModuleNames"}

CreateOptimizedHost ==
  {"fileExists", "readFile", "writeFile", "getDefaultLibFileName"}

\* a module lookup of the compiler through a host
HostLookup(host) ==
  \E moduleName \in Modules :
    IF "resolveModuleNames" \in host
      THEN ResolverBeginWith(VIRTUAL_FILE, <<moduleName>>)
      ELSE \* the compiler's own resolution: no cache is read or written
           /\ resolverCall.pc # "resolving"
           /\ \E primary \in { o \in PrimaryOutcomes(moduleName) : ~o.threw } :
                resolverCall' =
                  [NoResolverCall EXCEPT
                     !.pc = "bypassed",
                     !.moduleNames = <<moduleName>>,
                     !.containingFile = VIRTUAL_FILE,
                     !.resolvedModules = <<primary.module>>]
           /\ UNCHANGED <<enhancedModuleCache, modulePathCache, resolvingModules,
                          preWarm, now, fileVars, pipeline, timed, resolvedFrom, lastResolved,
                          storeVars, requestVars,
                          cacheCalls, lastCall>>

\* the program of a request is created over a host of the earlier version
LookupThroughHostV2 ==
  /\ resolverCall.pc # "resolving"
  /\ HostLookup(CreateOptimizedHostV2)

\* the program of a request is created over a host of the later version
LookupThroughHost ==
  /\ resolverCall.pc # "resolving"
  /\ HostLookup(CreateOptimizedHost)

NextHost ==
  \/ LookupThroughHostV2
  \/ LookupThroughHost
  \/ ResolverResolveNext
  \/ ResolverReturn

SpecHost == InitCache /\ [][NextHost]_vars

(***************************************************************************)
(* Properties of the request handler.                                      *)
(***************************************************************************)
IsCompile(r) == r.method = "POST" /\ r.body.has /\ r.body.code # <<>>

RanCompiler(r) == PhasesOf(r) \cap CompilePhases # {}

\* C1: when compile(T) is called right after an earlier compile(T) has answered
\* 200, with no step of any other request in between, the second answer is 200,
\* is flagged fromCache and carries the same compiledOutput and hasDiagnostics
\* as the first.
C1_RepeatIsServedFromCache ==
  \A j \in 1..Len(requests) :
    LET i == requests[j].after
    IN  (/\ i # 0
         /\ IsCompile(requests[j])
         /\ requests[i].method = "POST"
         /\ requests[i].body = requests[j].body
         /\ requests[i].status = 200)
        => /\ requests[j].status = 200
           /\ requests[j].response.fromCache
           /\ requests[j].response.compiledOutput
                = requests[i].response.compiledOutput
           /\ requests[j].response.hasDiagnostics
                = requests[i].response.hasDiagnostics

\* a text was compiled, answered 200, and submitted again at once
C1_Witness ==
  \E j \in 1..Len(requests) :
    LET i == requests[j].after
    IN  /\ i # 0
        /\ IsCompile(requests[j])
        /\ requests[i].body = requests[j].body
        /\ requests[i].status = 200
        /\ ~requests[i].response.fromCache
        /\ requests[j].response.fromCache

\* C2: a request whose content key is in the compilation-result store at its
\* cache check answers 200 with the stored compiledOutput and hasDiagnostics
\* and fromCache: true, and no host creation, program creation, analysis,
\* emission or pretty-printer call ever occurs for it.
C2_HitBypassesCompiler ==
  /\ [](\A j \in 1..Len(requests) :
          requests[j].response.fromCache => ~RanCompiler(requests[j]))
  /\ [][\A j \in 1..Len(requests') :
          (/\ j > Len(requests)
           /\ "cacheCheck" \in PhasesOf(requests'[j])
           /\ requests'[j].codeHash \in CacheKeys(compilationCache))
          => /\ requests'[j].status = 200
             /\ requests'[j].response.fromCache
             /\ ~RanCompiler(requests'[j])
             /\ \E k \in 1..Len(compilationCache) :
                  /\ compilationCache[k].key = requests'[j].codeHash
                  /\ requests'[j].response.compiledOutput
                       = compilationCache[k].compiledOutput
                  /\ requests'[j].response.hasDiagnostics
                       = compilationCache[k].hasDiagnostics]_vars

\* a request found its key in the store, which held diagnostics
C2_Witness ==
  \E j \in 1..Len(requests) :
    /\ requests[j].hit
    /\ requests[j].codeHash \in CacheKeys(compilationCache)
    /\ requests[j].response.hasDiagnostics

\* the format of one diagnostic line, 1-based line and column
DiagnosticLine(d) ==
  "/main.ts(" \o ToString(d.line + 1) \o "," \o ToString(d.character + 1)
    \o "): Error TS" \o ToString(d.code)

\* C3: a request whose diagnostics collected after analysis are non-empty never
\* invokes emission or the pretty-printer; it answers 200 with hasDiagnostics:
\* true and one formatted line per diagnostic as compiledOutput.
C3_DiagnosticsPrecedeEmission ==
  \A j \in 1..Len(requests) :
    LET r  == requests[j]
        ds == AllDiagnostics(r.body.code)
    IN  ("diagnostics" \in PhasesOf(r) /\ Len(ds) > 0)
        => /\ "emission" \notin PhasesOf(r)
           /\ "postProcessing" \notin PhasesOf(r)
           /\ "formatting" \notin PhasesOf(r)
           /\ r.status = 200
           /\ r.response.hasDiagnostics
           /\ ~r.response.fromCache
           /\ Len(r.response.compiledOutput) = Len(ds)
           /\ \A k \in 1..Len(ds) :
                r.response.compiledOutput[k] = DiagnosticLine(ds[k])

\* a text with a semantic error on its second line went through analysis
C3_Witness ==
  \E j \in 1..Len(requests) :
    /\ "diagnostics" \in PhasesOf(requests[j])
    /\ requests[j].body.code = <<"\n", "x">>
    /\ requests[j].status = 200

\* C4: a POST with non-empty code, for which neither the compiler nor the
\* pretty-printer threw, is answered 200, with hasDiagnostics true exactly when
\* analysis or emission reports a diagnostic for its text; an HTTP error status
\* for such a request comes only from a thrown exception.
C4_InvalidCodeIsNotAnHttpError ==
  \A j \in 1..Len(requests) :
    LET r == requests[j]
    IN  (IsCompile(r) /\ r.pc = "done")
        => /\ r.status \in {200, 500}
           /\ (r.status = 500) <=> r.threw
           /\ (r.status = 200) =>
                (r.response.hasDiagnostics
                   <=> (Len(AllDiagnostics(r.body.code)) > 0
                          \/ Len(EmitDiagnostics(r.body.code)) > 0))

\* an erroneous text and a clean text were both answered 200
C4_Witness ==
  \E i, j \in 1..Len(requests) :
    /\ requests[i].status = 200 /\ requests[i].response.hasDiagnostics
    /\ ~requests[i].response.fromCache
    /\ requests[j].status = 200 /\ ~requests[j].response.hasDiagnostics
    /\ ~requests[j].response.fromCache

\* C5: after a request ended with diagnostics, found at analysis or at
\* emission, every later request with the same text is answered from the cache,
\* without invoking the compiler, with exactly the diagnostics of that request.
C5_DiagnosticsAreServedAgain ==
  \A i, j \in 1..Len(requests) :
    (/\ i \in requests[j].doneAtArrival
     /\ requests[i].status = 200
     /\ requests[i].response.hasDiagnostics
     /\ ~requests[i].response.fromCache
     /\ requests[j].method = "POST"
     /\ requests[j].body = requests[i].body)
    => /\ requests[j].status = 200
       /\ requests[j].response.fromCache
       /\ ~RanCompiler(requests[j])
       /\ requests[j].response.hasDiagnostics
       /\ requests[j].response.compiledOutput
            = requests[i].response.compiledOutput

\* C6: two texts that are equal after trimming get the same content key, and
\* once one of them has been answered 200 a later request with the other is
\* answered from the cache.
C6_TrimmedTextsShareTheKey ==
  \A i, j \in 1..Len(requests) :
    (/\ IsCompile(requests[i]) /\ IsCompile(requests[j])
     /\ Trim(requests[i].body.code) = Trim(requests[j].body.code))
    => /\ requests[i].codeHash = requests[j].codeHash
       /\ (i \in requests[j].doneAtArrival /\ requests[i].status = 200)
            => (requests[j].status = 200 /\ requests[j].response.fromCache)

\* T was compiled and answered, then T followed by a newline was submitted
C6_Witness ==
  \E i, j \in 1..Len(requests) :
    /\ i \in requests[j].doneAtArrival
    /\ requests[i].status = 200 /\ ~requests[i].response.fromCache
    /\ requests[j].body.code = requests[i].body.code \o <<"\n">>
    /\ requests[j].response.fromCache

(***************************************************************************)
(* Properties of the cache store.                                          *)
(***************************************************************************)
\* C7: after any sequence of cacheCompilation calls the compilation-result
\* store holds at most MAX_CACHE_SIZE entries, under the current cacheCompilation
\* and under the earlier one.
C7_StoreIsBounded ==
  /\ Len(compilationCache) <= MAX_CACHE_SIZE
  /\ Len(compilationCacheV1) <= MAX_CACHE_SIZE

\* more distinct keys than MAX_CACHE_SIZE were inserted, the latest into a full store
C7_Witness ==
  /\ cacheCalls.fresh > MAX_CACHE_SIZE
  /\ lastCall.sizeBefore = MAX_CACHE_SIZE

KeysOf(cache, from, to) == { cache[i].key : i \in from..to }

\* C8: a cacheCompilation call on a store of MAX_CACHE_SIZE entries removes
\* exactly the floor(MAX_CACHE_SIZE / 10) earliest-inserted keys, keeps every
\* other entry unchanged and in order, and then inserts the new entry; a call on
\* a store below capacity removes nothing.
C8_EvictsOldestTenth ==
  [][cacheCalls' # cacheCalls =>
      LET old  == compilationCache
          new  == compilationCache'
          k    == lastCall'.key
          gone == IF Len(old) = MAX_CACHE_SIZE THEN MAX_CACHE_SIZE \div 10 ELSE 0
      IN  /\ Len(old) <= MAX_CACHE_SIZE
          /\ CacheKeys(new) = KeysOf(old, gone + 1, Len(old)) \cup {k}
          /\ \A i \in (gone + 1)..Len(old) :
               old[i].key # k => new[i - gone] = old[i]
          /\ \A i \in 1..gone : old[i].key # k => old[i].key \notin CacheKeys(new)
          /\ \E i \in 1..Len(new) :
               /\ new[i].key = k
               /\ new[i].hasDiagnostics = lastCall'.hasDiagnostics
               /\ (k \notin KeysOf(old, gone + 1, Len(old))) => i = Len(new)]_vars

\* a call found the store full and left it with the oldest tenth gone
C8_Witness ==
  /\ lastCall.sizeBefore = MAX_CACHE_SIZE
  /\ Len(compilationCache) = MAX_CACHE_SIZE - (MAX_CACHE_SIZE \div 10) + 1
  /\ compilationCache[1].key = (MAX_CACHE_SIZE \div 10) + 1


\* the results a returned list holds at the positions of specifier m, in order
ReturnedFor(call, m) ==
  LET positions == SelectSeq([i \in 1..Len(call.moduleNames) |-> i],
                             LAMBDA i : call.moduleNames[i] = m)
  IN  [k \in 1..Len(positions) |-> call.resolvedModules[positions[k]]]

\* the resolutions the call made or looked up for specifier m, in order
ResolutionsOf(call, m) ==
  LET events == SelectSeq(call.log, LAMBDA e : e.moduleName = m)
  IN  [k \in 1..Len(events) |-> events[k].result]

\* C9: the list a resolver call returns is as long as the batch, and its i-th
\* element is what was resolved or looked up for the i-th specifier (a path of
\* that specifier's package, or nothing), whatever the mix of hits and misses.
C9_ResultsMatchSpecifiers ==
  resolverCall.pc = "returned" =>
    /\ Len(resolverCall.resolvedModules) = Len(resolverCall.moduleNames)
    /\ \A m \in Modules : ReturnedFor(resolverCall, m) = ResolutionsOf(resolverCall, m)
    /\ \A i \in 1..Len(resolverCall.moduleNames) :
         resolverCall.resolvedModules[i].resolved =>
           SubSeq(resolverCall.resolvedModules[i].resolvedFileName, 1, 3)
             = ModulePath(resolverCall.moduleNames[i])

\* a batch [a, b, c] has returned where a and c were cache hits and b, another
\* specifier, was a miss that got resolved
C9_Witness ==
  /\ resolverCall.pc = "returned"
  /\ Len(resolverCall.moduleNames) = 3
  /\ Len(resolverCall.toResolve) = 1
  /\ resolverCall.toResolve[1].index = 2
  /\ resolverCall.moduleNames[1] # resolverCall.moduleNames[2]
  /\ resolverCall.resolvedModules[1].resolved
  /\ resolverCall.resolvedModules[2].resolved
  /\ resolverCall.resolvedModules[3].resolved

\* C10: once a resolver call has returned, none of the keys it marked is in the
\* in-flight set, and the set is empty whenever no call is executing.
C10_NoMarkerOutlivesTheCall ==
  /\ resolverCall.pc = "returned" => resolverCall.marked \cap resolvingModules = {}
  /\ resolverCall.pc # "resolving" => resolvingModules = {}

\* a call has returned whose misses ended by the primary resolver, by the fallback,
\* and by neither after the primary resolver threw
C10_Witness ==
  /\ resolverCall.pc = "returned"
  /\ resolverCall.marked # {}
  /\ {"primary", "fallback", "unresolvedAfterThrow"}
       \subseteq { resolverCall.log[k].how : k \in 1..Len(resolverCall.log) }
  /\ resolvingModules = {}


\* C11: a resolver call never raises and always returns; a specifier that neither
\* the primary resolver nor the fallback resolves (the primary resolver having
\* thrown or not) is absent at its position in the returned list.
C11_ResolverAlwaysReturns ==
  /\ [](resolverCall.pc # "raised")
  /\ [](resolverCall.pc = "returned" =>
          \A m \in Modules :
            (\E k \in 1..Len(resolverCall.log) :
               /\ resolverCall.log[k].moduleName = m
               /\ resolverCall.log[k].how \in {"unresolved", "unresolvedAfterThrow"})
            => \E i \in 1..Len(resolverCall.moduleNames) :
                 /\ resolverCall.moduleNames[i] = m
                 /\ resolverCall.resolvedModules[i] = Unresolved)
  /\ (resolverCall.pc = "resolving" ~> resolverCall.pc = "returned")

\* a call has returned with an absent entry for a specifier whose primary
\* resolution threw and whose fallback found nothing, next to a resolved one
C11_Witness ==
  /\ resolverCall.pc = "returned"
  /\ \E i, j \in 1..Len(resolverCall.moduleNames) :
       /\ resolverCall.resolvedModules[i] = Unresolved
       /\ resolverCall.resolvedModules[j].resolved
  /\ \E k \in 1..Len(resolverCall.log) :
       resolverCall.log[k].how = "unresolvedAfterThrow"


IsCodeless(r) == r.method = "POST" /\ (~r.body.has \/ r.body.code = <<>>)

\* C12: a POST with no code field or an empty one is answered 400 with an error
\* payload as it arrives; it is not hashed, looked up or compiled, and the step
\* that handles it changes no cache.
C12_MissingCodeIsRejected ==
  /\ [](\A i \in 1..Len(requests) :
          IsCodeless(requests[i]) =>
            /\ requests[i].pc = "done"
            /\ requests[i].status = 400
            /\ requests[i].response.error # ""
            /\ requests[i].response.compiledOutput = <<>>
            /\ PhasesOf(requests[i]) \subseteq {"setup"}
            /\ ~requests[i].hit)
  /\ [][(Len(requests') > Len(requests) /\ IsCodeless(requests'[Len(requests')]))
          => UNCHANGED <<storeVars, moduleVars>>]_vars

\* a POST with an empty code has been answered 400 while the store held an entry
C12_Witness ==
  /\ Len(compilationCache) > 0
  /\ \E i \in 1..Len(requests) :
       /\ IsCodeless(requests[i]) /\ requests[i].body.has
       /\ requests[i].status = 400
       /\ requests[i].response.error = "Code is required"


\* C13: OPTIONS is answered 204 with an empty body and any method other than POST
\* and OPTIONS is answered 405, both with the CORS headers set, with no phase of
\* the pipeline run and no cache changed.
C13_OtherMethodsStopAtTheDoor ==
  /\ [](\A i \in 1..Len(requests) :
          LET r == requests[i]
          IN  r.method # "POST" =>
                /\ r.pc = "done"
                /\ r.cors
                /\ r.trace = <<>>
                /\ ~r.hit
                /\ r.codeHash = 0
                /\ r.status = IF r.method = "OPTIONS" THEN 204 ELSE 405
                /\ r.method = "OPTIONS" => r.response = NoResponse
                /\ r.method # "OPTIONS" => r.response.error = "Method not allowed")
  /\ [][(Len(requests') > Len(requests) /\ requests'[Len(requests')].method # "POST")
          => UNCHANGED <<storeVars, moduleVars>>]_vars

\* an OPTIONS request and a GET request have both been answered
C13_Witness ==
  \E i, j \in 1..Len(requests) :
    /\ requests[i].method = "OPTIONS" /\ requests[i].status = 204
    /\ requests[j].method = "GET" /\ requests[j].status = 405
    /\ requests[i].cors /\ requests[j].cors


\* the requests that stored a result under codeHash
StoredBy(codeHash) ==
  { k \in 1..Len(requests) :
      /\ requests[k].codeHash = codeHash
      /\ requests[k].trace # <<>>
      /\ requests[k].trace[Len(requests[k].trace)] = "cacheResult" }

\* C14: a request whose pipeline throws is answered 500 with error and message
\* and stores nothing; every entry of the store comes from a request answered
\* 200, so the same text sent again is compiled again unless another request
\* has stored a result for it.
C14_FailuresAreNotCached ==
  /\ [](\A i \in 1..Len(requests) :
          requests[i].threw =>
            /\ requests[i].status = 500
            /\ requests[i].response.error = "Internal server error"
            /\ requests[i].response.message # ""
            /\ i \notin StoredBy(requests[i].codeHash))
  /\ [](\A p \in 1..Len(compilationCache) :
          \E k \in StoredBy(compilationCache[p].key) :
            /\ requests[k].status = 200
            /\ ~requests[k].threw
            /\ requests[k].response.compiledOutput = compilationCache[p].compiledOutput)
  /\ [](\A i, j \in 1..Len(requests) :
          (/\ requests[i].threw
           /\ i \in requests[j].doneAtArrival
           /\ requests[j].codeHash = requests[i].codeHash
           /\ StoredBy(requests[i].codeHash) = {})
          => ~requests[j].hit /\ RanCompiler(requests[j]))
  /\ [][\A i \in 1..Len(requests') :
          (requests'[i].threw /\ (i > Len(requests) \/ ~requests[i].threw))
          => UNCHANGED storeVars]_vars

\* a request was answered 500 after analysis failed, and the same text, sent
\* again, went to the compiler
C14_Witness ==
  \E i, j \in 1..Len(requests) :
    /\ requests[i].threw /\ requests[i].status = 500
    /\ "analysis" \in PhasesOf(requests[i])
    /\ i \in requests[j].doneAtArrival
    /\ requests[j].body = requests[i].body
    /\ RanCompiler(requests[j]) /\ ~requests[j].hit


\* the terminal path of a request answered 200
TerminalPath(r) ==
  IF r.hit THEN "cacheHit"
  ELSE IF "formatting" \in PhasesOf(r) THEN "cleanOutput"
  ELSE IF "emission" \in PhasesOf(r) THEN "emissionDiagnostics"
  ELSE "analysisDiagnostics"

PhaseOrder ==
  <<"setup", "hashing", "cacheCheck", "hostCreation", "programCreation", "analysis",
    "diagnostics", "emission", "postProcessing", "formatting", "cacheResult">>

PhaseRank(phase) == CHOOSE k \in 1..Len(PhaseOrder) : PhaseOrder[k] = phase

\* C16: the phases of a request occur in the order validation, hashing, cache
\* check, host creation, program creation, analysis, diagnostics, emission,
\* post-processing, result caching, and the response comes last, whatever other
\* requests do in between.
C16_PhasesInOrder ==
  /\ [](\A i \in 1..Len(requests) :
          LET t == requests[i].trace
          IN  /\ \A k \in 1..Len(t) : t[k] \in { PhaseOrder[n] : n \in 1..Len(PhaseOrder) }
              /\ \A k, l \in 1..Len(t) : k < l => PhaseRank(t[k]) < PhaseRank(t[l])
              /\ \A k \in 2..Len(t) :
                   PhaseRank(t[k]) <= PhaseRank("diagnostics")
                     => PhaseRank(t[k - 1]) = PhaseRank(t[k]) - 1
              /\ (requests[i].status # 0) = (requests[i].pc = "done"))
  /\ [][\A i \in 1..Len(requests) :
          /\ requests[i].pc = "done" => requests'[i] = requests[i]
          /\ SubSeq(requests'[i].trace, 1, Len(requests[i].trace)) = requests[i].trace]_vars

\* a request ran every phase to a clean result while another request, which
\* arrived before it was answered, ran too
C16_Witness ==
  \E i, j \in 1..Len(requests) :
    /\ i < j
    /\ requests[i].trace = PhaseOrder
    /\ requests[i].status = 200
    /\ i \notin requests[j].doneAtArrival
    /\ RanCompiler(requests[j])
    /\ requests[j].pc = "done"


PreWarmKey(k) == CreateCacheKey(COMMON_ANGULAR_MODULES[k], PreWarmFile)

\* C17: pre-warming never raises; it visits the specifiers of its list in order,
\* skips exactly those already in the enhanced cache, goes on after a failure or
\* an exception, and every specifier it resolves is in both caches.
C17_PreWarmVisitsEverySpecifier ==
  /\ preWarm.pc # "raised"
  /\ preWarm.pc = "running" =>
       /\ Len(preWarm.log) = preWarm.next - 1
       /\ \A k \in 1..Len(preWarm.log) :
            /\ preWarm.log[k].moduleName = COMMON_ANGULAR_MODULES[k]
            /\ (preWarm.log[k].how = "skipped") = preWarm.log[k].wasCached
            /\ preWarm.log[k].how \in {"skipped", "resolved"} =>
                 /\ enhancedModuleCache[PreWarmKey(k)].present
                 /\ modulePathCache[PreWarmKey(k)]
                      = enhancedModuleCache[PreWarmKey(k)].resolvedFileName
            /\ preWarm.log[k].how \in {"threw", "unresolved"} =>
                 /\ ~enhancedModuleCache[PreWarmKey(k)].present
                 /\ modulePathCache[PreWarmKey(k)] = <<>>

\* the loop has visited the whole list: one specifier was skipped, resolution of
\* another threw, and specifiers after it were attempted, one of them resolved
C17_Witness ==
  /\ preWarm.pc = "running"
  /\ Len(preWarm.log) = Len(COMMON_ANGULAR_MODULES)
  /\ \E j, k, l \in 1..Len(preWarm.log) :
       /\ preWarm.log[j].how = "skipped"
       /\ preWarm.log[k].how = "threw"
       /\ k < l
       /\ preWarm.log[l].how = "resolved"
       /\ enhancedModuleCache[PreWarmKey(l)].present


\* a request that is waiting can be accepted by the handler
CanAccept ==
  ENABLED (HandlerExported /\ (Preflight \/ MethodNotAllowed \/ CodeRequired
                                 \/ CacheMiss \/ CreationThrows))

\* C18: in every state of the pre-warm routine, not started, partly done or
\* finished, a request can be accepted by the handler.
C18_RequestsNeverWaitForPreWarm ==
  Len(requests) < limit => CanAccept


\* the specifiers the pre-warm routine has put into the enhanced cache
PreWarmed ==
  { COMMON_ANGULAR_MODULES[k] : k \in { n \in 1..Len(COMMON_ANGULAR_MODULES) :
                                         enhancedModuleCache[PreWarmKey(n)].present } }

\* C19: once pre-warming has finished, a lookup of a pre-warmed specifier for the
\* request's virtual file is answered from the module cache, and the underlying
\* resolver is not called for it.
C19_PreWarmedImportsAreHits ==
  (HandlerExported /\ resolverCall.pc = "returned"
     /\ resolverCall.containingFile = VIRTUAL_FILE) =>
    \A k \in 1..Len(resolverCall.log) :
      resolverCall.log[k].moduleName \in PreWarmed =>
        resolverCall.log[k].how \in {"enhanced", "legacy"}


\* C20: every module lookup the compiler makes through a host of
\* createOptimizedHost is answered by the caching module resolver.
C20_HostDelegatesToTheResolver ==
  resolverCall.pc # "bypassed"


\* the positions of the batch that phase 1 left to phase 2
WorkListIndices(call) == { call.toResolve[k].index : k \in 1..Len(call.toResolve) }

\* C21: the batch lookup resolves nothing itself: a specifier whose key is in the
\* enhanced cache, or only in the legacy cache, is answered from the cache, a
\* legacy hit being copied into the enhanced cache, and exactly the specifiers
\* that missed both caches go to the work list, the only ones the underlying
\* resolver and the fallback are invoked for.
C21_LookupPhaseResolvesNothing ==
  /\ [][(resolverCall'.pc = "resolving" /\ resolverCall.pc # "resolving") =>
          /\ modulePathCache' = modulePathCache
          /\ resolvingModules' = resolvingModules
          /\ \A k \in 1..Len(resolverCall'.log) :
               resolverCall'.log[k].how \in {"enhanced", "legacy"}
          /\ \A i \in 1..Len(resolverCall'.moduleNames) :
               LET key    == CreateCacheKey(resolverCall'.moduleNames[i],
                                            resolverCall'.containingFile)
                   answer == resolverCall'.resolvedModules[i]
               IN  IF enhancedModuleCache[key].present
                     THEN /\ i \notin WorkListIndices(resolverCall')
                          /\ answer.resolved
                          /\ answer.resolvedFileName = enhancedModuleCache[key].resolvedFileName
                          /\ enhancedModuleCache'[key] = enhancedModuleCache[key]
                   ELSE IF modulePathCache[key] # <<>>
                     THEN /\ i \notin WorkListIndices(resolverCall')
                          /\ answer.resolved
                          /\ answer.resolvedFileName = modulePathCache[key]
                          /\ enhancedModuleCache'[key].present
                          /\ enhancedModuleCache'[key].resolvedFileName = modulePathCache[key]
                   ELSE /\ i \in WorkListIndices(resolverCall')
                        /\ answer = Unresolved
                        /\ enhancedModuleCache'[key] = enhancedModuleCache[key]]_vars
  /\ [](\A k \in 1..Len(resolverCall.log) :
          resolverCall.log[k].how \notin {"enhanced", "legacy"} =>
            \E n \in 1..Len(resolverCall.toResolve) :
              resolverCall.toResolve[n].moduleName = resolverCall.log[k].moduleName)

\* the lookup of a batch of two has just ended with one specifier answered from
\* the enhanced cache and the other put on the work list
C21_Witness ==
  /\ resolverCall.pc = "resolving"
  /\ resolverCall.next = 1
  /\ Len(resolverCall.moduleNames) = 2
  /\ Len(resolverCall.toResolve) = 1
  /\ Len(resolverCall.log) = 1
  /\ resolverCall.log[1].how = "enhanced"

\* C22: the cache key depends on the containing file only through its kind
\* ('/main.ts', a path with node_modules in it, anything else): a specifier
\* stored by a call from f1 is answered from that entry, without a resolution,
\* to a call from any f2 of the same kind; and two different (specifier, kind)
\* pairs never share a key
C22_KeyDependsOnBucketOnly ==
  /\ \A m1 \in Modules, m2 \in Modules, f1 \in BucketFiles, f2 \in BucketFiles :
       (CreateCacheKey(m1, f1) = CreateCacheKey(m2, f2))
         <=> (m1 = m2 /\ Bucket(f1) = Bucket(f2))
  /\ [][ (resolverCall.pc # "resolving" /\ resolverCall'.pc = "resolving") =>
           \A i \in 1..Len(resolverCall'.moduleNames), f1 \in BucketFiles :
             LET moduleName == resolverCall'.moduleNames[i]
                 stored     == CreateCacheKey(moduleName, f1)
             IN  (/\ Bucket(f1) = Bucket(resolverCall'.containingFile)
                  /\ resolvedFrom[stored] = f1)
                   => /\ i \notin WorkListIndices(resolverCall')
                      /\ resolverCall'.resolvedModules[i] =
                           FromEnhanced(enhancedModuleCache[stored])
                      /\ enhancedModuleCache'[stored] = enhancedModuleCache[stored]
        ]_vars

C22_Witness ==
  /\ resolverCall.pc = "returned"
  /\ Len(resolverCall.moduleNames) = 1
  /\ LET cacheKey == CreateCacheKey(resolverCall.moduleNames[1],
                                    resolverCall.containingFile)
     IN  /\ resolvedFrom[cacheKey] \notin {<<>>, resolverCall.containingFile}
         /\ Bucket(resolvedFrom[cacheKey]) = Bucket(resolverCall.containingFile)
         /\ Len(resolverCall.log) = 1
         /\ resolverCall.log[1].how = "enhanced"

\* the step of a resolver call that handled one work-list item and ended with
\* the specifier unresolved
FailedResolutionOf(cacheKey) ==
  /\ resolverCall.pc = "resolving"
  /\ resolverCall'.pc = "resolving"
  /\ resolverCall'.next = resolverCall.next + 1
  /\ resolverCall.toResolve[resolverCall.next].cacheKey = cacheKey
  /\ Len(resolverCall'.log) = Len(resolverCall.log) + 1
  /\ resolverCall'.log[Len(resolverCall'.log)].how
       \in {"unresolved", "unresolvedAfterThrow"}

\* C23: when neither the primary resolver nor the fallback resolves a specifier,
\* the enhanced cache, the legacy cache and the file-content cache stay as they
\* were and the key's in-flight marker is cleared; nothing is cached for the
\* failure, so a key that was in no cache is still in none and the next lookup
\* of it goes to the resolvers again
C23_FailuresLeaveNoTrace ==
  [][ \A cacheKey \in CacheKeyDomain :
        FailedResolutionOf(cacheKey) =>
          /\ UNCHANGED <<enhancedModuleCache, modulePathCache, fileContentCache>>
          /\ cacheKey \notin resolvingModules'
          /\ resolverCall'.resolvedModules[resolverCall.toResolve[resolverCall.next].index]
               = Unresolved
    ]_vars

\* a call has returned in which a specifier was left unresolved while another
\* specifier's entry is in both caches
C23_Witness ==
  /\ resolverCall.pc = "returned"
  /\ \E k \in 1..Len(resolverCall.log) :
       LET cacheKey == CreateCacheKey(resolverCall.log[k].moduleName,
                                      resolverCall.containingFile)
       IN  /\ resolverCall.log[k].how = "unresolved"
           /\ ~enhancedModuleCache[cacheKey].present
           /\ modulePathCache[cacheKey] = <<>>
           /\ cacheKey \in resolverCall.marked
           /\ cacheKey \notin resolvingModules
  /\ \E other \in CacheKeyDomain : enhancedModuleCache[other].present

\* C24: the enhanced module cache and the legacy path cache always hold the same
\* keys, the legacy path of a key is the resolvedFileName of its enhanced entry,
\* and no step removes an entry of either cache
C24_ModuleCachesAgree ==
  /\ [](\A cacheKey \in CacheKeyDomain :
          /\ enhancedModuleCache[cacheKey].present <=> modulePathCache[cacheKey] # <<>>
          /\ enhancedModuleCache[cacheKey].present =>
               modulePathCache[cacheKey] = enhancedModuleCache[cacheKey].resolvedFileName)
  /\ [][\A cacheKey \in CacheKeyDomain :
          /\ enhancedModuleCache[cacheKey].present => enhancedModuleCache'[cacheKey].present
          /\ modulePathCache[cacheKey] # <<>> => modulePathCache'[cacheKey] # <<>>
       ]_vars

\* the caches hold an entry written by the pre-warm and one written by a resolver
\* call, and a later call has returned
C24_Witness ==
  /\ resolverCall.pc = "returned"
  /\ \E warmed \in CacheKeyDomain, resolved \in CacheKeyDomain :
       /\ resolvedFrom[warmed] = PreWarmFile
       /\ resolvedFrom[resolved] = VIRTUAL_FILE
       /\ enhancedModuleCache[warmed].present
       /\ enhancedModuleCache[resolved].present
  /\ \E k \in 1..Len(resolverCall.log) : resolverCall.log[k].how = "enhanced"

\* C25: in the time-to-live variant an enhanced entry whose age has reached
\* MODULE_RESOLUTION_TTL is expired: the next lookup of its key is not answered
\* from a cached path but goes on the work list for a fresh resolution
C25_ExpiredEntriesAreResolvedAgain ==
  [][ (resolverCall.pc # "resolving" /\ resolverCall'.pc = "resolving") =>
        \A i \in 1..Len(resolverCall'.moduleNames) :
          LET cached == enhancedModuleCache[CreateCacheKey(resolverCall'.moduleNames[i],
                                                           resolverCall'.containingFile)]
          IN  (cached.present /\ now - cached.timestamp >= MODULE_RESOLUTION_TTL)
                => i \in WorkListIndices(resolverCall')
    ]_vars

\* C26: a specifier answered from the module caches gets the resolvedFileName and
\* the isExternalLibraryImport flag of the descriptor the latest real resolution
\* stored for its key, also when the answer comes from the legacy cache
C26_CachedAnswersAreTheStoredOnes ==
  [][ (resolverCall.pc # "resolving" /\ resolverCall'.pc = "resolving") =>
        \A i \in 1..Len(resolverCall'.moduleNames) :
          i \notin WorkListIndices(resolverCall') =>
            resolverCall'.resolvedModules[i] =
              FromEnhanced(lastResolved[CreateCacheKey(resolverCall'.moduleNames[i],
                                                       resolverCall'.containingFile)])
    ]_vars

\* a readFile call has been made for a name of the virtual file
VirtualRead(read) ==
  /\ read.fileName # <<>>
  /\ MatchesVirtualFileNameOrPath(read.fileName, VIRTUAL_FILE, PathResolve(VIRTUAL_FILE))

\* C27: every key of the file-content cache is a path with node_modules in it
\* and its content is not empty; the virtual file is never a key, and a read of
\* it returns the request's text without asking or writing the cache
C27_OnlyDependencyFilesAreCached ==
  /\ [](\A fileName \in DOMAIN fileContentCache :
          /\ "node_modules" \in Segments(fileName)
          /\ fileContentCache[fileName] # ""
          /\ ~MatchesVirtualFileNameOrPath(fileName, VIRTUAL_FILE,
                                           PathResolve(VIRTUAL_FILE)))
  /\ [](VirtualRead(hostRead) =>
          /\ hostRead.content = <<hostRead.inputCode>>
          /\ ~hostRead.cacheAsked
          /\ hostRead.diskReads = {})
  /\ [][(VirtualRead(hostRead') /\ hostRead' # hostRead)
          => fileContentCache' = fileContentCache]_vars

\* the virtual file has been read under its relative name, and answered with
\* the request's text, while a dependency file is in the cache and the files on
\* disk have changed
C27_Witness ==
  /\ hostRead.fileName = <<".", "main.ts">>
  /\ hostRead.content = <<hostRead.inputCode>>
  /\ NpmFile \in DOMAIN fileContentCache
  /\ disk[LocalFile] = <<"v2">>
  /\ disk[NpmFile] = <<"">>

\* C28: an entry of the file-content cache is never changed or removed, and a
\* read of a cached path returns the cached content without reading the disk,
\* whatever the disk holds by then
C28_CachedFilesAreFrozen ==
  /\ [][\A fileName \in DOMAIN fileContentCache :
          /\ fileName \in DOMAIN fileContentCache'
          /\ fileContentCache'[fileName] = fileContentCache[fileName]]_vars
  /\ [](hostRead.cachedBefore # <<>> =>
          /\ hostRead.content = hostRead.cachedBefore
          /\ hostRead.diskReads = {}
          /\ fileContentCache[hostRead.fileName] = hostRead.content[1])

\* a cached dependency file has been read, and answered from the cache, after
\* its content on disk changed
C28_Witness ==
  /\ hostRead.fileName = NpmFile
  /\ hostRead.cachedBefore = <<"v1">>
  /\ hostRead.content = <<"v1">>
  /\ disk[NpmFile] = <<"v2">>

\* C29: once the store holds an entry for a content key, a later write for that
\* key writes the same compiledOutput and hasDiagnostics
C29_RewritesAreEqual ==
  [][\A i \in 1..Len(compilationCache), j \in 1..Len(compilationCache') :
       compilationCache'[j].key = compilationCache[i].key =>
         /\ compilationCache'[j].compiledOutput = compilationCache[i].compiledOutput
         /\ compilationCache'[j].hasDiagnostics = compilationCache[i].hasDiagnostics
    ]_vars

\* what the handler answers for a text when it compiles it and nothing throws
UncachedCompilation(inputCode) ==
  IF Len(AllDiagnostics(inputCode)) > 0
    THEN [compiledOutput |-> DiagnosticText(AllDiagnostics(inputCode)),
          hasDiagnostics |-> TRUE]
  ELSE IF Len(EmitDiagnostics(inputCode)) > 0
    THEN [compiledOutput |-> DiagnosticText(EmitDiagnostics(inputCode)),
          hasDiagnostics |-> TRUE]
  ELSE [compiledOutput |-> PrettierFormat(RemoveNgDevModeBlocks(EmittedCode(inputCode))),
        hasDiagnostics |-> FALSE]

\* C30: a response served from the result cache has the compiledOutput and the
\* hasDiagnostics that compiling the request's own text would give, also when
\* the entry was written for a text that differs from it in leading or trailing
\* whitespace
C30_CacheIsTransparent ==
  \A j \in 1..Len(requests) :
    (requests[j].status = 200 /\ requests[j].response.fromCache) =>
      /\ requests[j].response.compiledOutput
           = UncachedCompilation(requests[j].body.code).compiledOutput
      /\ requests[j].response.hasDiagnostics
           = UncachedCompilation(requests[j].body.code).hasDiagnostics

\* C31: two requests with the same content key that both passed the cache check
\* before either wrote its result both compile, both answer 200 with fromCache
\* false and with equal compiledOutput and hasDiagnostics (when nothing throws),
\* and the store then holds exactly one entry for the key
C31_ConcurrentMissesAgree ==
  \A i, j \in 1..Len(requests) :
    (/\ i < j
     /\ IsCompile(requests[i]) /\ IsCompile(requests[j])
     /\ requests[i].codeHash = requests[j].codeHash
     /\ ~requests[i].hit /\ ~requests[j].hit
     /\ i \notin requests[j].doneAtArrival
     /\ requests[i].pc = "done" /\ requests[j].pc = "done"
     /\ ~requests[i].threw /\ ~requests[j].threw)
    => /\ requests[i].status = 200 /\ requests[j].status = 200
       /\ ~requests[i].response.fromCache /\ ~requests[j].response.fromCache
       /\ RanCompiler(requests[i]) /\ RanCompiler(requests[j])
       /\ requests[i].response.compiledOutput = requests[j].response.compiledOutput
       /\ requests[i].response.hasDiagnostics = requests[j].response.hasDiagnostics
       /\ Cardinality({ k \in 1..Len(compilationCache) :
                          compilationCache[k].key = requests[i].codeHash }) = 1

\* C32: whatever the interleaving of concurrent requests, a response that is
\* not served from the cache is made from the request's own text only: the
\* diagnostics, the emitted text captured by writeFile and the compiledOutput
\* are those of compiling that text
C32_RequestsDoNotMix ==
  \A j \in 1..Len(requests) :
    LET r == requests[j]
    IN  /\ r.diagnostics
             \in {<<>>, AllDiagnostics(r.body.code), EmitDiagnostics(r.body.code)}
        /\ r.compiledCode \in {<<>>, EmittedCode(r.body.code)}
        /\ (r.pc = "done" /\ r.status = 200 /\ ~r.response.fromCache) =>
             /\ r.response.compiledOutput
                  = UncachedCompilation(r.body.code).compiledOutput
             /\ r.response.hasDiagnostics
                  = UncachedCompilation(r.body.code).hasDiagnostics

\* two requests with different texts and different keys were in flight together:
\* one ended with emitted code, the other with diagnostics
C32_Witness ==
  \E i, j \in 1..Len(requests) :
    /\ i < j
    /\ i \notin requests[j].doneAtArrival
    /\ requests[i].codeHash # requests[j].codeHash
    /\ requests[i].pc = "done" /\ requests[j].pc = "done"
    /\ requests[i].status = 200 /\ requests[j].status = 200
    /\ ~requests[i].response.fromCache /\ ~requests[j].response.fromCache
    /\ requests[i].response.hasDiagnostics # requests[j].response.hasDiagnostics
    /\ requests[i].compiledCode # <<>> \/ requests[j].compiledCode # <<>>

\* C33: in the handler that deletes one oldest key at the cache check and sets
\* its entry after the analysis, the store never holds more than MAX_CACHE_SIZE
\* entries, whatever the interleaving of the requests
C33_PipelineStoreIsBounded ==
  Len(pipeline.cache) <= MAX_CACHE_SIZE

\* C34: cacheCompilation inserts the given entry whether or not it cleaned up,
\* the cleanup flag is false whenever no call is executing, and so every call
\* that finds the store at capacity does clean up
C34_CleanupFlagNeverSticks ==
  /\ [](isCleaningCompilationCache = FALSE)
  /\ [][cacheCalls' # cacheCalls =>
          /\ \E i \in 1..Len(compilationCache') :
               compilationCache'[i] =
                 Entry(lastCall'.key, ResultFor(lastCall'.key, lastCall'.hasDiagnostics))
          /\ Len(compilationCache) >= MAX_CACHE_SIZE =>
               Len(compilationCache') <= Len(compilationCache) - EntriesToRemove + 1
          /\ Len(compilationCache) < MAX_CACHE_SIZE =>
               Len(compilationCache') >= Len(compilationCache)
       ]_vars

\* the store has been at capacity twice: a second cleanup has run, some calls
\* after the first, and the call that ran it has inserted its entry
C34_Witness ==
  /\ cacheCalls.fresh > MAX_CACHE_SIZE + EntriesToRemove
  /\ lastCall.sizeBefore = MAX_CACHE_SIZE
  /\ Len(compilationCache) = MAX_CACHE_SIZE - EntriesToRemove + 1
  /\ compilationCache[Len(compilationCache)].key = lastCall.key
  /\ ~isCleaningCompilationCache

\* C35: a request answered from the result cache changes none of the cache
\* mappings and not the in-flight set; the entry it read keeps its place in
\* the insertion order of the store
C35_HitLeavesCachesAlone ==
  [][(Len(requests') > Len(requests) /\ requests'[Len(requests')].hit) =>
       /\ UNCHANGED <<compilationCache, compilationCacheV1, isCleaningCompilationCache>>
       /\ UNCHANGED <<enhancedModuleCache, modulePathCache, fileContentCache>>
       /\ UNCHANGED resolvingModules
    ]_vars

\* a hit on the oldest of two stored entries: it is still the oldest
C35_Witness ==
  /\ Len(compilationCache) >= 2
  /\ Len(requests) >= 3
  /\ requests[Len(requests)].hit
  /\ requests[Len(requests)].pc = "done"
  /\ requests[Len(requests)].codeHash = compilationCache[1].key

\* C36: whenever the resolver marks a key as in flight the key is not marked
\* yet, also for a batch that names one specifier twice; no specifier is ever
\* answered by the re-check of the cache for a key already in flight
C36_MarkingAlwaysSucceeds ==
  /\ (/\ resolverCall.pc = "resolving"
      /\ resolverCall.next <= Len(resolverCall.toResolve)) =>
       CanMark(resolvingModules, resolverCall.toResolve[resolverCall.next].cacheKey)
  /\ \A k \in 1..Len(resolverCall.log) : resolverCall.log[k].how # "recheck"

\* a batch named one uncached specifier twice: the first was resolved and
\* cached, and the second was marked and resolved again
C36_Witness ==
  /\ resolverCall.pc = "returned"
  /\ Len(resolverCall.toResolve) >= 2
  /\ resolverCall.toResolve[1].cacheKey = resolverCall.toResolve[2].cacheKey
  /\ resolverCall.resolvedModules[resolverCall.toResolve[1].index].resolved
  /\ resolverCall.log[2].how \in {"primary", "fallback", "fallbackAfterThrow",
                                  "unresolved", "unresolvedAfterThrow"}
  /\ resolverCall.marked = {resolverCall.toResolve[1].cacheKey}

\* C37: every invocation of the handler sends exactly one response, with
\* status 204, 405, 400, 200 or 500, given that the analysis and the
\* pretty-printer settle: it is answered eventually, nothing is sent before
\* the answer, and an answered invocation does nothing more
C37_ExactlyOneResponse ==
  /\ []<>(\A i \in 1..Len(requests) :
            /\ requests[i].pc = "done"
            /\ requests[i].status \in {204, 405, 400, 200, 500})
  /\ [](\A i \in 1..Len(requests) :
          /\ requests[i].pc # "done" =>
               requests[i].status = 0 /\ requests[i].response = NoResponse
          /\ requests[i].pc \in {"analysis", "formatting", "done"})
  /\ [][\A i \in 1..Len(requests) :
          requests[i].pc = "done" => requests'[i] = requests[i]]_vars

\* two invocations were in flight together and both are answered: one went
\* through both awaits to a 200, the other ended in the catch block
C37_Witness ==
  /\ Len(requests) = 2
  /\ 1 \notin requests[2].doneAtArrival
  /\ requests[1].pc = "done" /\ requests[2].pc = "done"
  /\ requests[1].status = 200 /\ "formatting" \in PhasesOf(requests[1])
  /\ requests[2].status = 500 /\ requests[2].threw
  /\ "analysis" \in PhasesOf(requests[2])

\* the candidates of the fallback in the order the code tries them
CandidatesTried(pkg) ==
  (IF pkg.pkgJson = "valid"
     THEN Declared(<<pkg.types, pkg.typings, pkg.main>>)
            \o <<"index.d.ts", "lib/index.d.ts", "dist/index.d.ts">>
     ELSE <<>>)
    \o <<"index.d.ts", "index.ts", "lib/index.d.ts", "dist/index.d.ts">>

\* the candidates as the claim lists them
CandidatesListed(pkg) ==
  Declared(<<pkg.types, pkg.typings, pkg.main>>)
    \o <<"index.d.ts", "lib/index.d.ts", "dist/index.d.ts">>

\* the first of the candidates that is on disk, flagged as an external library
\* import; nothing when the directory or every candidate is missing
FirstOnDisk(moduleName, pkg, candidates) ==
  LET found == { i \in 1..Len(candidates) : candidates[i] \in pkg.files }
  IN  IF ~pkg.dir \/ found = {} THEN Unresolved
      ELSE ResolvedModule(
             Append(ModulePath(moduleName),
                    candidates[CHOOSE i \in found : \A k \in found : i <= k]),
             "true")

\* the log entries of the misses that went to phase 2
MissesIn(log) == { k \in 1..Len(log) : "pkg" \in DOMAIN log[k] }

FallbackConsulted(entry) ==
  entry.how \in {"fallback", "fallbackAfterThrow", "unresolved", "unresolvedAfterThrow"}

\* C38 amended: the fallback is consulted exactly for the misses the primary
\* resolver did not resolve; it returns nothing without the package directory
\* and when package.json exists but cannot be parsed, and otherwise the first
\* that exists of the declared types, typings and main and of index.d.ts,
\* lib/index.d.ts, dist/index.d.ts (when package.json parsed), then of
\* index.d.ts, index.ts, lib/index.d.ts, dist/index.d.ts, flagged as external
C38_FallbackFollowsTheCodeOrder ==
  \A k \in MissesIn(resolverCall.log) :
    LET entry == resolverCall.log[k]
    IN  /\ FallbackConsulted(entry) <=>
             (entry.primary.threw \/ ~entry.primary.module.resolved)
        /\ ~FallbackConsulted(entry) => entry.result = entry.primary.module
        /\ FallbackConsulted(entry) =>
             entry.result =
               IF entry.pkg.pkgJson = "invalid" THEN Unresolved
               ELSE FirstOnDisk(entry.moduleName, entry.pkg, CandidatesTried(entry.pkg))

\* C38 as stated: for a miss the fallback is consulted only when the primary
\* resolver returned nothing or threw; it returns nothing without the package
\* directory, and otherwise the first that exists of types, typings, main,
\* index.d.ts, lib/index.d.ts, dist/index.d.ts, flagged as external
C38_FallbackFollowsTheListedOrder ==
  \A k \in MissesIn(resolverCall.log) :
    LET entry == resolverCall.log[k]
    IN  /\ FallbackConsulted(entry) =>
             (entry.primary.threw \/ ~entry.primary.module.resolved)
        /\ FallbackConsulted(entry) =>
             entry.result =
               FirstOnDisk(entry.moduleName, entry.pkg, CandidatesListed(entry.pkg))

\* the primary resolver found nothing, the package declares typings and main,
\* both are on disk, and the fallback answered with typings
C38_Witness ==
  /\ resolverCall.pc = "returned"
  /\ Len(resolverCall.log) = 1
  /\ resolverCall.log[1].how = "fallback"
  /\ resolverCall.log[1].pkg.pkgJson = "valid"
  /\ resolverCall.log[1].pkg.types = ""
  /\ resolverCall.log[1].pkg.files = {"typings.d.ts", "main.js"}
  /\ resolverCall.log[1].result =
       ResolvedModule(Append(ModulePath(resolverCall.log[1].moduleName), "typings.d.ts"),
                      "true")
  /\ resolverCall.resolvedModules[1] = resolverCall.log[1].result

\* the clock readings that bound the phase of the i-th recorded timing
PhaseBegan(i) == IF i = 1 THEN timed.startTime ELSE timed.marks[i - 1]

\* C39: with a clock that never goes back, each recorded timing is the time
\* elapsed in its own phase alone, so it is not negative, and the recorded
\* timings of a response add up to at most its compilationTime
C39_TimingsArePhaseTimes ==
  /\ DOMAIN timed.timings = { TimedPhases[i] : i \in 1..Len(timed.marks) }
  /\ \A i \in 1..Len(timed.marks) :
       /\ timed.timings[TimedPhases[i]] = timed.marks[i] - PhaseBegan(i)
       /\ timed.timings[TimedPhases[i]] >= 0
  /\ timed.status = 200 =>
       SumOver(timed.timings, DOMAIN timed.timings) <= timed.compilationTime

\* the final answer of an invocation that started after time 0: all eight
\* timings are recorded, some phase took time, and so did the last statements
C39_Witness ==
  /\ timed.status = 200
  /\ timed.startTime > 0
  /\ Len(timed.marks) = Len(TimedPhases)
  /\ timed.timings["hashing"] > 0
  /\ timed.timings["analysis"] = 0
  /\ timed.timings["formatting"] > 0
  /\ SumOver(timed.timings, DOMAIN timed.timings) < timed.compilationTime

====
